---- MODULE Spec2Model ----
(***************************************************************************)
(* Banking analysis platform: the table-path aggregator                    *)
(* (core/data_aggregator.py), its number and unit parsing, and the ratio   *)
(* calculator (analytics/calculator.py).                                   *)
(*                                                                         *)
(* Text is a sequence of Unicode code points (SANY reads no Cyrillic       *)
(* string literal); each table of patterns carries the source text in a    *)
(* comment.  A number of the aggregator is an exact decimal  m * 10^e       *)
(* (record [m, e], m without trailing zeros) standing for the float        *)
(* nearest to it; the floats of the calculator are IEEE 754 doubles with   *)
(* their rounding.                                                         *)
(***************************************************************************)
EXTENDS Integers, Sequences, FiniteSets, TLC

VARIABLES
    tables,          \* aggregate_financial_data: the tables consumed so far (input, in order)
    financial_data,  \* aggregate_financial_data: the result dictionary
    current_units,   \* aggregate_financial_data: column index -> unit multiplier of the current table
    written,         \* history: the indicator keys some cell has been stored under
    pc,              \* aggregate_financial_data: "tables" | "rows" | "done" | "idle"
    value,           \* the argument of the parsing function under call
    result,          \* what the parsing function returned
    parse_pc,        \* "call" | "parse_russian_number" | "parse_number_with_unit" | "idle"
    data,            \* BankingRatiosCalculator.data (the record given to __init__)
    ratios,          \* the dictionary calculate_all_ratios returned
    calc_pc,         \* "ready" | "all_ratios" | "calculated" | "bsi" | "idle"
    normalized_scores, \* calculate_bsi: ratio name -> normalized score
    bsi,             \* what calculate_bsi returned: (bsi, interpretation)
    norm_args,       \* the arguments of normalize_score under call
    norm_score,      \* what normalize_score returned
    norm_pc,         \* "call" | "returned" | "idle"
    account_tables,  \* parser.aggregate_financial_data: tables, table name -> rows
    aggregated,      \* what parser.aggregate_financial_data returned
    account_pc,      \* "call" | "returned" | "idle"
    table_rows,      \* the rows of the one table given to the calls below
    table_result,        \* what aggregate_financial_data([table]) returned
    extracted,       \* what BankTablesProcessor.extract_financial_data(table) returned
    reaggregated,    \* what aggregate_financial_data returned on the rows (key, value) of table_result
    table_calls,     \* the calls made on the table so far
    uploaded_files,  \* app.main: the files of the uploader, in order
    file_idx,        \* app.main: the number of files the loop is done with
    app_pc,          \* app.main: the position in the loop over the files, "idle" outside it
    temp_files,      \* the temporary files that exist, by the number of their file
    session_data,    \* st.session_state.session_data: bank name -> result
    shown_errors,    \* the numbers of the files st.error was called for
    progress         \* the number of files the progress bar reports

vars ==
    <<tables, financial_data, current_units, written, pc, value, result, parse_pc, data,
      ratios, calc_pc, normalized_scores, bsi, norm_args, norm_score, norm_pc,
      account_tables, aggregated, account_pc, table_rows, table_result, extracted,
      reaggregated, table_calls, uploaded_files, file_idx, app_pc, temp_files, session_data,
      shown_errors, progress>>

\* the variables of the stability index, of normalize_score on its own, of the
\* account-code aggregation, of the tables processor and of the upload loop
bsi_vars == <<normalized_scores, bsi>>
norm_vars == <<norm_args, norm_score, norm_pc>>
account_vars == <<account_tables, aggregated, account_pc>>
processor_vars == <<table_rows, table_result, extracted, reaggregated, table_calls>>
app_vars ==
    <<uploaded_files, file_idx, app_pc, temp_files, session_data, shown_errors, progress>>

-----------------------------------------------------------------------------
(* Characters and strings                                                  *)

Min(a, b) == IF a <= b THEN a ELSE b

\* str.isspace() / regex \s on str: the Unicode white space
WhitespaceChars ==
    {9, 10, 11, 12, 13, 28, 29, 30, 31, 32, 133, 160, 5760, 8232, 8233, 8239, 8287, 12288}
        \cup (8192..8202)

IsSpace(c) == c \in WhitespaceChars

\* regex \d restricted to the ASCII digits (the only digits of the alphabet used here)
IsDigit(c) == c \in 48..57

\* str.lower() on one code point: Latin, Cyrillic, and the letter yo
Lower(c) ==
    IF c \in 65..90 THEN c + 32
    ELSE IF c \in 1040..1071 THEN c + 32
    ELSE IF c = 1025 THEN 1105
    ELSE c

\* str.upper() on one code point
Upper(c) ==
    IF c \in 97..122 THEN c - 32
    ELSE IF c \in 1072..1103 THEN c - 32
    ELSE IF c = 1105 THEN 1025
    ELSE c

StrLower(s) == [i \in 1..Len(s) |-> Lower(s[i])]
StrUpper(s) == [i \in 1..Len(s) |-> Upper(s[i])]

RECURSIVE LStrip(_)
LStrip(s) == IF s # <<>> /\ IsSpace(Head(s)) THEN LStrip(Tail(s)) ELSE s

RECURSIVE RStrip(_)
RStrip(s) ==
    IF s # <<>> /\ IsSpace(s[Len(s)]) THEN RStrip(SubSeq(s, 1, Len(s) - 1)) ELSE s

\* str.strip()
Strip(s) == LStrip(RStrip(s))

\* str.replace(a, b) for single characters; b = <<>> deletes
RECURSIVE Replace(_, _, _)
Replace(s, a, b) ==
    IF s = <<>> THEN <<>>
    ELSE (IF Head(s) = a THEN b ELSE <<Head(s)>>) \o Replace(Tail(s), a, b)

\* ' '.join(parts)
RECURSIVE Join(_)
Join(parts) ==
    IF parts = <<>> THEN <<>>
    ELSE IF Len(parts) = 1 THEN parts[1]
    ELSE parts[1] \o <<32>> \o Join(Tail(parts))

\* the index of the last occurrence of character c in s, 0 when there is none
RECURSIVE LastIndexOf(_, _)
LastIndexOf(s, c) ==
    IF s = <<>> THEN 0
    ELSE IF s[Len(s)] = c THEN Len(s)
    ELSE LastIndexOf(SubSeq(s, 1, Len(s) - 1), c)

\* the index of the first element of s in set cs, 0 when there is none
RECURSIVE FirstIndexIn(_, _, _)
FirstIndexIn(s, cs, i) ==
    IF i > Len(s) THEN 0
    ELSE IF s[i] \in cs THEN i
    ELSE FirstIndexIn(s, cs, i + 1)

-----------------------------------------------------------------------------
(* Regular expressions: the subset of Python's re the patterns use.        *)
(* A pattern is a sequence of tokens [k, c, lo, hi]: k = "lit" (character  *)
(* c), "any" (.), "space" (\s), "nonspace" (\S), "bol" (^), "eol" ($),      *)
(* repeated greedily lo..hi times (hi = -1: no upper limit).               *)

Tok(k, c, lo, hi) == [k |-> k, c |-> c, lo |-> lo, hi |-> hi]
Lit(s) == [i \in 1..Len(s) |-> Tok("lit", s[i], 1, 1)]
AnyStar == <<Tok("any", 0, 0, -1)>>
AnyOpt == <<Tok("any", 0, 0, 1)>>
LitStar(c) == <<Tok("lit", c, 0, -1)>>
LitOpt(c) == <<Tok("lit", c, 0, 1)>>
SpaceStar == <<Tok("space", 0, 0, -1)>>
Bol == <<Tok("bol", 0, 1, 1)>>
Eol == <<Tok("eol", 0, 1, 1)>>

\* one character against one token; ic: re.IGNORECASE
CharMatches(t, ch, ic) ==
    IF t.k = "any" THEN ch # 10
    ELSE IF t.k = "space" THEN IsSpace(ch)
    ELSE IF t.k = "nonspace" THEN ~IsSpace(ch)
    ELSE IF ic THEN Lower(ch) = Lower(t.c)
    ELSE ch = t.c

\* how many characters from position i on match token t, at most t.hi
RECURSIVE RunLen(_, _, _, _, _)
RunLen(t, s, i, n, ic) ==
    IF (t.hi # -1 /\ n >= t.hi) \/ i + n > Len(s) THEN n
    ELSE IF CharMatches(t, s[i + n], ic) THEN RunLen(t, s, i, n + 1, ic)
    ELSE n

\* Backtracking match of pat[k..] at position i of s: the position after the
\* match the regex engine finds first (greedy), 0 when there is none.
RECURSIVE MatchHere(_, _, _, _, _)
RECURSIVE TryRep(_, _, _, _, _, _)
MatchHere(pat, k, s, i, ic) ==
    IF k > Len(pat) THEN i
    ELSE IF pat[k].k = "bol" THEN (IF i = 1 THEN MatchHere(pat, k + 1, s, i, ic) ELSE 0)
    ELSE IF pat[k].k = "eol"
        THEN (IF i = Len(s) + 1 THEN MatchHere(pat, k + 1, s, i, ic) ELSE 0)
    ELSE TryRep(pat, k, s, i, RunLen(pat[k], s, i, 0, ic), ic)

TryRep(pat, k, s, i, n, ic) ==
    IF n < pat[k].lo THEN 0
    ELSE LET r == MatchHere(pat, k + 1, s, i + n, ic)
         IN  IF r # 0 THEN r ELSE TryRep(pat, k, s, i, n - 1, ic)

\* re.search: the leftmost match as <<start, end>> (end exclusive), <<0, 0>> when none
RECURSIVE SearchFrom(_, _, _, _)
SearchFrom(pat, s, i, ic) ==
    IF i > Len(s) + 1 THEN <<0, 0>>
    ELSE LET r == MatchHere(pat, 1, s, i, ic)
         IN  IF r # 0 THEN <<i, r>> ELSE SearchFrom(pat, s, i + 1, ic)

re_search(pat, s, ic) == SearchFrom(pat, s, 1, ic)[1] # 0

\* re.sub(pat, '', s): every non-overlapping match removed, left to right
RECURSIVE SubFrom(_, _, _, _)
SubFrom(pat, s, i, ic) ==
    IF i > Len(s) THEN <<>>
    ELSE LET r == MatchHere(pat, 1, s, i, ic)
         IN  IF r > i THEN SubFrom(pat, s, r, ic)
             ELSE <<s[i]>> \o SubFrom(pat, s, i + 1, ic)

re_sub(pat, s, ic) == SubFrom(pat, s, 1, ic)

-----------------------------------------------------------------------------
(* Numbers                                                                 *)

None == [none |-> TRUE]

RECURSIVE Norm(_, _)
Norm(m, e) ==
    IF m = 0 THEN [m |-> 0, e |-> 0]
    ELSE IF m % 10 = 0 THEN Norm(m \div 10, e + 1)
    ELSE [m |-> m, e |-> e]

Dec(m, e) == Norm(m, e)
Zero == Dec(0, 0)
Abs(n) == IF n < 0 THEN 0 - n ELSE n

RECURSIVE Pow10(_)
Pow10(n) == IF n <= 0 THEN 1 ELSE 10 * Pow10(n - 1)

RECURSIVE NumDigits(_)
NumDigits(n) == IF n < 10 THEN 1 ELSE 1 + NumDigits(n \div 10)

\* -1, 0, 1 as |a| is below, equal to, above |b|  (a, b normalised)
MagCmp(a, b) ==
    IF a.m = 0 \/ b.m = 0
    THEN (IF a.m = b.m THEN 0 ELSE IF a.m = 0 THEN -1 ELSE 1)
    ELSE LET oa == NumDigits(Abs(a.m)) + a.e
             ob == NumDigits(Abs(b.m)) + b.e
         IN  IF oa < ob THEN -1
             ELSE IF oa > ob THEN 1
             ELSE LET lo == Min(a.e, b.e)
                      xa == Abs(a.m) * Pow10(a.e - lo)
                      xb == Abs(b.m) * Pow10(b.e - lo)
                  IN  IF xa < xb THEN -1 ELSE IF xa > xb THEN 1 ELSE 0

Sign(a) == IF a.m > 0 THEN 1 ELSE IF a.m < 0 THEN -1 ELSE 0

DecCmp(a, b) ==
    IF Sign(a) # Sign(b) THEN (IF Sign(a) < Sign(b) THEN -1 ELSE 1)
    ELSE Sign(a) * MagCmp(a, b)

DecGt(a, b) == DecCmp(a, b) = 1
DecLt(a, b) == DecCmp(a, b) = -1
DecMul(a, b) == Dec(a.m * b.m, a.e + b.e)
DecAbs(a) == [m |-> Abs(a.m), e |-> a.e]

RECURSIVE DigitsValue(_)
DigitsValue(s) ==
    IF s = <<>> THEN 0 ELSE 10 * DigitsValue(SubSeq(s, 1, Len(s) - 1)) + (s[Len(s)] - 48)

AllDigits(s) == \A i \in 1..Len(s) : IsDigit(s[i])

\* str.isdigit() on the alphabet used here
isdigit(s) == s # <<>> /\ AllDigits(s)

\* an optionally signed run of digits: <<ok, value>>
SignedInt(s) ==
    LET neg == s # <<>> /\ s[1] = 45
        body == IF s # <<>> /\ s[1] \in {43, 45} THEN Tail(s) ELSE s
    IN  IF isdigit(body)
        THEN <<TRUE, IF neg THEN 0 - DigitsValue(body) ELSE DigitsValue(body)>>
        ELSE <<FALSE, 0>>

\* float(text): [sign] digits [. digits] [e [sign] digits], surrounding white
\* space ignored; None stands for ValueError. The spellings inf and nan and
\* underscores between digits are not in the alphabet used here.
PyFloat(text) ==
    LET s == Strip(text)
        neg == s # <<>> /\ s[1] = 45
        body == IF s # <<>> /\ s[1] \in {43, 45} THEN Tail(s) ELSE s
        ei == FirstIndexIn(body, {69, 101}, 1)
        mant == IF ei = 0 THEN body ELSE SubSeq(body, 1, ei - 1)
        expo == IF ei = 0 THEN <<TRUE, 0>> ELSE SignedInt(SubSeq(body, ei + 1, Len(body)))
        di == FirstIndexIn(mant, {46}, 1)
        ip == IF di = 0 THEN mant ELSE SubSeq(mant, 1, di - 1)
        fp == IF di = 0 THEN <<>> ELSE SubSeq(mant, di + 1, Len(mant))
    IN  IF AllDigits(ip) /\ AllDigits(fp) /\ ip \o fp # <<>> /\ expo[1]
        THEN LET n == DigitsValue(ip \o fp)
             IN  Dec(IF neg THEN 0 - n ELSE n, expo[2] - Len(fp))
        ELSE None

-----------------------------------------------------------------------------
(* Cells: a DataFrame cell is NaN (absent), a string or a float            *)

NaN == [kind |-> "nan"]
Str(s) == [kind |-> "str", text |-> s]
Num(x) == [kind |-> "num", num |-> x]
isna(cell) == cell.kind = "nan"
isstr(cell) == cell.kind = "str"
isnum(cell) == cell.kind = "num"

\* the decimal digits of a natural number, as text
RECURSIVE DigitsOf(_)
DigitsOf(n) == IF n < 10 THEN <<48 + n>> ELSE Append(DigitsOf(n \div 10), 48 + (n % 10))

Zeros(n) == [i \in 1..n |-> 48]

\* repr of a positive float in positional notation: digits are its significant
\* digits, point the number of them before the decimal point
FixedNotation(digits, point) ==
    IF point >= Len(digits) THEN digits \o Zeros(point - Len(digits)) \o <<46, 48>>
    ELSE IF point > 0 THEN SubSeq(digits, 1, point) \o <<46>> \o SubSeq(digits, point + 1, Len(digits))
    ELSE <<48, 46>> \o Zeros(0 - point) \o digits

\* the exponent of the scientific notation: a sign and at least two digits
ExponentText(x) ==
    <<101, IF x < 0 THEN 45 ELSE 43>>
        \o (IF Abs(x) < 10 THEN <<48>> ELSE <<>>) \o DigitsOf(Abs(x))

\* repr of a positive float in scientific notation
ScientificNotation(digits, point) ==
    <<digits[1]>> \o (IF Len(digits) > 1 THEN <<46>> \o Tail(digits) ELSE <<>>)
        \o ExponentText(point - 1)

\* repr of a positive float: positional from 1e-4 up to, not including, 1e16
PositiveRepr(digits, point) ==
    IF point > 16 \/ point < -3 THEN ScientificNotation(digits, point)
    ELSE FixedNotation(digits, point)

\* str(x) of a float x: the shortest decimal text that reads back as x
PyStr(x) ==
    IF x.m = 0 THEN <<48, 46, 48>>
    ELSE (IF x.m < 0 THEN <<45>> ELSE <<>>)
             \o PositiveRepr(DigitsOf(Abs(x.m)), NumDigits(Abs(x.m)) + x.e)

\* str(cell)
CellStr(cell) ==
    IF isstr(cell) THEN cell.text
    ELSE IF isnum(cell) THEN PyStr(cell.num)
    ELSE <<110, 97, 110>>

-----------------------------------------------------------------------------
(* Number normalizer (data_aggregator.py)                                  *)

One == Dec(1, 0)

\* re.sub(r'[₽\$€%\s]+$', '', s): the trailing run of currency signs, percent
\* signs and white space removed
RECURSIVE StripTrailingJunk(_)
StripTrailingJunk(s) ==
    IF s # <<>> /\ (s[Len(s)] \in {8381, 36, 8364, 37} \/ IsSpace(s[Len(s)]))
    THEN StripTrailingJunk(SubSeq(s, 1, Len(s) - 1))
    ELSE s

\* re.sub(r'^[^\d\-\.]+', '', s): the leading run of characters that are no
\* digit, minus sign or point removed
RECURSIVE StripLeadingJunk(_)
StripLeadingJunk(s) ==
    IF s # <<>> /\ ~(IsDigit(Head(s)) \/ Head(s) \in {45, 46})
    THEN StripLeadingJunk(Tail(s))
    ELSE s

\* a variant of CommaIsDecimal that lets up to 4 digits follow the comma
CommaIsDecimalUpTo4(s) ==
    LET ci == LastIndexOf(s, 44)
        frac == Strip(SubSeq(s, ci + 1, Len(s)))
    IN  ci # 0 /\ isdigit(frac) /\ Len(frac) <= 4

\* lines 204-214: the comma is a decimal separator when what follows the last
\* comma, stripped, is 1 to 3 digits; otherwise commas and spaces are removed
CommaIsDecimal(s) ==
    LET ci == LastIndexOf(s, 44)
        frac == Strip(SubSeq(s, ci + 1, Len(s)))
    IN  ci # 0 /\ isdigit(frac) /\ Len(frac) <= 3

NormalizeSeparators(s) ==
    LET ci == LastIndexOf(s, 44)
    IN  IF ci # 0
        THEN IF CommaIsDecimal(s)
             THEN Replace(Replace(SubSeq(s, 1, ci - 1), 32, <<>>), 160, <<>>)
                      \o <<46>> \o Strip(SubSeq(s, ci + 1, Len(s)))
             ELSE Replace(Replace(Replace(s, 44, <<>>), 32, <<>>), 160, <<>>)
        ELSE Replace(Replace(s, 32, <<>>), 160, <<>>)

\* lines 218-220: a magnitude above 1e16, or below 1e-6 and not zero, is refused
MagnitudeGuard(num) ==
    IF num = None THEN None
    ELSE IF DecGt(DecAbs(num), Dec(1, 16))
            \/ (DecLt(DecAbs(num), Dec(1, -6)) /\ num # Zero) THEN None
    ELSE num

\* lines 216-222: float(val_str) and the magnitude guard
ToFloatGuarded(s) == MagnitudeGuard(PyFloat(s))

\* parse_russian_number(value) for a string value
parse_russian_number(val) ==
    IF val \in {<<>>, <<45>>, <<8212>>, <<8211>>} THEN None
    ELSE ToFloatGuarded(
             NormalizeSeparators(
                 StripLeadingJunk(StripTrailingJunk(Strip(Replace(val, 160, <<32>>))))))

-----------------------------------------------------------------------------
(* Constants of data_aggregator.py                                         *)

ScanColumns == 10
LabelCells == 3
ShortCell == 3
MinCells == 2
MinColumns == 2

\* a variant of DefaultFinancialData in which equity starts at 1
DefaultFinancialDataWithEquity ==
    [ total_assets |-> Zero,
      total_liabilities |-> Zero,
      equity |-> One,
      net_income |-> Zero,
      cash_and_equivalents |-> Zero,
      loans_to_customers |-> Zero,
      deposits_from_customers |-> Zero,
      operating_income |-> Zero,
      operating_profit |-> Zero,
      roa |-> Zero,
      roe |-> Zero,
      net_interest_margin |-> Zero,
      cost_to_income_ratio |-> Zero,
      non_performing_loan_ratio |-> Zero,
      capital_adequacy_ratio |-> Zero,
      current_liquidity_ratio |-> Zero,
      instant_liquidity_ratio |-> Zero,
      digital_penetration |-> Zero,
      mobile_penetration |-> Zero,
      active_digital_customers |-> Zero,
      number_of_branches |-> Zero,
      it_staff |-> Zero,
      api_count |-> Zero,
      paperless_operations |-> Zero,
      electronic_signature_usage |-> Zero,
      remote_account_opening |-> Zero,
      churn_rate |-> Zero,
      retention_rate |-> Zero,
      products_per_customer |-> Zero,
      cross_sell_rate |-> Zero,
      wallet_share |-> Zero,
      credit_cost |-> Zero,
      loan_loss_provision_coverage |-> Zero,
      net_interest_income |-> Zero,
      subordinated_debt |-> Zero,
      interest_earning_assets |-> Zero,
      interest_bearing_liabilities |-> Zero,
      net_interest_spread |-> Zero,
      interbank_assets |-> Zero,
      interbank_liabilities |-> Zero,
      equity_to_debt_ratio |-> Zero,
      retained_earnings_to_total_assets |-> Zero,
      ebit_to_total_assets |-> Zero,
      total_assets_turnover |-> Zero,
      return_on_net_assets |-> Zero,
      return_on_average_total_assets |-> Zero,
      return_on_net_assets_after_deducting_non_recurring |-> Zero,
      interbank_assets_to_interest_earning_assets |-> Zero,
      deposits_to_interest_bearing_liabilities |-> Zero,
      interbank_liabilities_to_interest_bearing_liabilities |-> Zero ]

\* data_aggregator.py 26-77: the result dictionary with its default values
DefaultFinancialData ==
    [ total_assets |-> Zero,
      total_liabilities |-> Zero,
      equity |-> Zero,
      net_income |-> Zero,
      cash_and_equivalents |-> Zero,
      loans_to_customers |-> Zero,
      deposits_from_customers |-> Zero,
      operating_income |-> Zero,
      operating_profit |-> Zero,
      roa |-> Zero,
      roe |-> Zero,
      net_interest_margin |-> Zero,
      cost_to_income_ratio |-> Zero,
      non_performing_loan_ratio |-> Zero,
      capital_adequacy_ratio |-> Zero,
      current_liquidity_ratio |-> Zero,
      instant_liquidity_ratio |-> Zero,
      digital_penetration |-> Zero,
      mobile_penetration |-> Zero,
      active_digital_customers |-> Zero,
      number_of_branches |-> Zero,
      it_staff |-> Zero,
      api_count |-> Zero,
      paperless_operations |-> Zero,
      electronic_signature_usage |-> Zero,
      remote_account_opening |-> Zero,
      churn_rate |-> Zero,
      retention_rate |-> Zero,
      products_per_customer |-> Zero,
      cross_sell_rate |-> Zero,
      wallet_share |-> Zero,
      credit_cost |-> Zero,
      loan_loss_provision_coverage |-> Zero,
      net_interest_income |-> Zero,
      subordinated_debt |-> Zero,
      interest_earning_assets |-> Zero,
      interest_bearing_liabilities |-> Zero,
      net_interest_spread |-> Zero,
      interbank_assets |-> Zero,
      interbank_liabilities |-> Zero,
      equity_to_debt_ratio |-> Zero,
      retained_earnings_to_total_assets |-> Zero,
      ebit_to_total_assets |-> Zero,
      total_assets_turnover |-> Zero,
      return_on_net_assets |-> Zero,
      return_on_average_total_assets |-> Zero,
      return_on_net_assets_after_deducting_non_recurring |-> Zero,
      interbank_assets_to_interest_earning_assets |-> Zero,
      deposits_to_interest_bearing_liabilities |-> Zero,
      interbank_liabilities_to_interest_bearing_liabilities |-> Zero ]

\* data_aggregator.py 80-146: the indicators in declaration order, each with its
\* regex synonyms in order
financial_patterns ==
    <<
    [ name |-> "total_assets", patterns |-> <<
        \* итого активов
        Lit(<<1080, 1090, 1086, 1075, 1086, 32, 1072, 1082, 1090, 1080, 1074, 1086, 1074>>),
        \* валюта баланса
        Lit(<<1074, 1072, 1083, 1102, 1090, 1072, 32, 1073, 1072, 1083, 1072, 1085, 1089,
            1072>>),
        \* активы всего
        Lit(<<1072, 1082, 1090, 1080, 1074, 1099, 32, 1074, 1089, 1077, 1075, 1086>>),
        \* ^активы$
        Bol \o Lit(<<1072, 1082, 1090, 1080, 1074, 1099>>) \o Eol,
        \* активы.*конец
        Lit(<<1072, 1082, 1090, 1080, 1074, 1099>>) \o AnyStar \o Lit(<<1082, 1086, 1085,
            1077, 1094>>)
    >> ],
    [ name |-> "loans_to_customers", patterns |-> <<
        \* кредиты и авансы клиентам
        Lit(<<1082, 1088, 1077, 1076, 1080, 1090, 1099, 32, 1080, 32, 1072, 1074, 1072,
            1085, 1089, 1099, 32, 1082, 1083, 1080, 1077, 1085, 1090, 1072, 1084>>),
        \* кредитный портфель
        Lit(<<1082, 1088, 1077, 1076, 1080, 1090, 1085, 1099, 1081, 32, 1087, 1086, 1088,
            1090, 1092, 1077, 1083, 1100>>),
        \* ссуды клиентам
        Lit(<<1089, 1089, 1091, 1076, 1099, 32, 1082, 1083, 1080, 1077, 1085, 1090, 1072,
            1084>>),
        \* выданные кредиты
        Lit(<<1074, 1099, 1076, 1072, 1085, 1085, 1099, 1077, 32, 1082, 1088, 1077, 1076,
            1080, 1090, 1099>>),
        \* кредиты.*физическим
        Lit(<<1082, 1088, 1077, 1076, 1080, 1090, 1099>>) \o AnyStar \o Lit(<<1092, 1080,
            1079, 1080, 1095, 1077, 1089, 1082, 1080, 1084>>),
        \* кредиты.*юридическим
        Lit(<<1082, 1088, 1077, 1076, 1080, 1090, 1099>>) \o AnyStar \o Lit(<<1102, 1088,
            1080, 1076, 1080, 1095, 1077, 1089, 1082, 1080, 1084>>)
    >> ],
    [ name |-> "deposits_from_customers", patterns |-> <<
        \* депозиты
        Lit(<<1076, 1077, 1087, 1086, 1079, 1080, 1090, 1099>>),
        \* привлеченные средства
        Lit(<<1087, 1088, 1080, 1074, 1083, 1077, 1095, 1077, 1085, 1085, 1099, 1077, 32,
            1089, 1088, 1077, 1076, 1089, 1090, 1074, 1072>>),
        \* средства клиентов
        Lit(<<1089, 1088, 1077, 1076, 1089, 1090, 1074, 1072, 32, 1082, 1083, 1080, 1077,
            1085, 1090, 1086, 1074>>),
        \* обязательства.*клиентов
        Lit(<<1086, 1073, 1103, 1079, 1072, 1090, 1077, 1083, 1100, 1089, 1090, 1074,
            1072>>) \o AnyStar \o Lit(<<1082, 1083, 1080, 1077, 1085, 1090, 1086, 1074>>),
        \* вклады
        Lit(<<1074, 1082, 1083, 1072, 1076, 1099>>)
    >> ],
    [ name |-> "net_income", patterns |-> <<
        \* чистая прибыль
        Lit(<<1095, 1080, 1089, 1090, 1072, 1103, 32, 1087, 1088, 1080, 1073, 1099, 1083,
            1100>>),
        \* прибыль.*налог
        Lit(<<1087, 1088, 1080, 1073, 1099, 1083, 1100>>) \o AnyStar \o Lit(<<1085, 1072,
            1083, 1086, 1075>>),
        \* прибыль за год
        Lit(<<1087, 1088, 1080, 1073, 1099, 1083, 1100, 32, 1079, 1072, 32, 1075, 1086,
            1076>>),
        \* чистая прибыль.*год
        Lit(<<1095, 1080, 1089, 1090, 1072, 1103, 32, 1087, 1088, 1080, 1073, 1099, 1083,
            1100>>) \o AnyStar \o Lit(<<1075, 1086, 1076>>),
        \* прибыль.*отчетный период
        Lit(<<1087, 1088, 1080, 1073, 1099, 1083, 1100>>) \o AnyStar \o Lit(<<1086, 1090,
            1095, 1077, 1090, 1085, 1099, 1081, 32, 1087, 1077, 1088, 1080, 1086, 1076>>)
    >> ],
    [ name |-> "operating_income", patterns |-> <<
        \* операционный доход
        Lit(<<1086, 1087, 1077, 1088, 1072, 1094, 1080, 1086, 1085, 1085, 1099, 1081, 32,
            1076, 1086, 1093, 1086, 1076>>),
        \* операционные поступления
        Lit(<<1086, 1087, 1077, 1088, 1072, 1094, 1080, 1086, 1085, 1085, 1099, 1077, 32,
            1087, 1086, 1089, 1090, 1091, 1087, 1083, 1077, 1085, 1080, 1103>>),
        \* доходы от основной деятельности
        Lit(<<1076, 1086, 1093, 1086, 1076, 1099, 32, 1086, 1090, 32, 1086, 1089, 1085,
            1086, 1074, 1085, 1086, 1081, 32, 1076, 1077, 1103, 1090, 1077, 1083, 1100, 1085,
            1086, 1089, 1090, 1080>>),
        \* доходы.*основная
        Lit(<<1076, 1086, 1093, 1086, 1076, 1099>>) \o AnyStar \o Lit(<<1086, 1089, 1085,
            1086, 1074, 1085, 1072, 1103>>)
    >> ],
    [ name |-> "operating_profit", patterns |-> <<
        \* операционная прибыль
        Lit(<<1086, 1087, 1077, 1088, 1072, 1094, 1080, 1086, 1085, 1085, 1072, 1103, 32,
            1087, 1088, 1080, 1073, 1099, 1083, 1100>>),
        \* прибыль от основной деятельности
        Lit(<<1087, 1088, 1080, 1073, 1099, 1083, 1100, 32, 1086, 1090, 32, 1086, 1089,
            1085, 1086, 1074, 1085, 1086, 1081, 32, 1076, 1077, 1103, 1090, 1077, 1083, 1100,
            1085, 1086, 1089, 1090, 1080>>)
    >> ],
    [ name |-> "roa", patterns |-> <<
        \* roa
        Lit(<<114, 111, 97>>),
        \* рентабельность активов
        Lit(<<1088, 1077, 1085, 1090, 1072, 1073, 1077, 1083, 1100, 1085, 1086, 1089, 1090,
            1100, 32, 1072, 1082, 1090, 1080, 1074, 1086, 1074>>),
        \* роа
        Lit(<<1088, 1086, 1072>>),
        \* рентабельность.*активов
        Lit(<<1088, 1077, 1085, 1090, 1072, 1073, 1077, 1083, 1100, 1085, 1086, 1089, 1090,
            1100>>) \o AnyStar \o Lit(<<1072, 1082, 1090, 1080, 1074, 1086, 1074>>)
    >> ],
    [ name |-> "roe", patterns |-> <<
        \* roe
        Lit(<<114, 111, 101>>),
        \* рентабельность собственного капитала
        Lit(<<1088, 1077, 1085, 1090, 1072, 1073, 1077, 1083, 1100, 1085, 1086, 1089, 1090,
            1100, 32, 1089, 1086, 1073, 1089, 1090, 1074, 1077, 1085, 1085, 1086, 1075, 1086,
            32, 1082, 1072, 1087, 1080, 1090, 1072, 1083, 1072>>),
        \* роэ
        Lit(<<1088, 1086, 1101>>),
        \* рентабельность.*капитала
        Lit(<<1088, 1077, 1085, 1090, 1072, 1073, 1077, 1083, 1100, 1085, 1086, 1089, 1090,
            1100>>) \o AnyStar \o Lit(<<1082, 1072, 1087, 1080, 1090, 1072, 1083, 1072>>)
    >> ],
    [ name |-> "net_interest_margin", patterns |-> <<
        \* чистая процентная маржа
        Lit(<<1095, 1080, 1089, 1090, 1072, 1103, 32, 1087, 1088, 1086, 1094, 1077, 1085,
            1090, 1085, 1072, 1103, 32, 1084, 1072, 1088, 1078, 1072>>),
        \* процентная маржа
        Lit(<<1087, 1088, 1086, 1094, 1077, 1085, 1090, 1085, 1072, 1103, 32, 1084, 1072,
            1088, 1078, 1072>>),
        \* npm
        Lit(<<110, 112, 109>>),
        \* чистая.*маржа
        Lit(<<1095, 1080, 1089, 1090, 1072, 1103>>) \o AnyStar \o Lit(<<1084, 1072, 1088,
            1078, 1072>>)
    >> ],
    [ name |-> "cost_to_income_ratio", patterns |-> <<
        \* затраты к доходу
        Lit(<<1079, 1072, 1090, 1088, 1072, 1090, 1099, 32, 1082, 32, 1076, 1086, 1093,
            1086, 1076, 1091>>),
        \* cir
        Lit(<<99, 105, 114>>),
        \* отношение затрат к доходу
        Lit(<<1086, 1090, 1085, 1086, 1096, 1077, 1085, 1080, 1077, 32, 1079, 1072, 1090,
            1088, 1072, 1090, 32, 1082, 32, 1076, 1086, 1093, 1086, 1076, 1091>>),
        \* коэффициент затрат
        Lit(<<1082, 1086, 1101, 1092, 1092, 1080, 1094, 1080, 1077, 1085, 1090, 32, 1079,
            1072, 1090, 1088, 1072, 1090>>)
    >> ],
    [ name |-> "non_performing_loan_ratio", patterns |-> <<
        \* неработающ.*кредит
        Lit(<<1085, 1077, 1088, 1072, 1073, 1086, 1090, 1072, 1102, 1097>>) \o AnyStar \o
            Lit(<<1082, 1088, 1077, 1076, 1080, 1090>>),
        \* npl
        Lit(<<110, 112, 108>>),
        \* просрочен.*кредит
        Lit(<<1087, 1088, 1086, 1089, 1088, 1086, 1095, 1077, 1085>>) \o AnyStar \o
            Lit(<<1082, 1088, 1077, 1076, 1080, 1090>>),
        \* стадия 3
        Lit(<<1089, 1090, 1072, 1076, 1080, 1103, 32, 51>>),
        \* просроченная задолженность
        Lit(<<1087, 1088, 1086, 1089, 1088, 1086, 1095, 1077, 1085, 1085, 1072, 1103, 32,
            1079, 1072, 1076, 1086, 1083, 1078, 1077, 1085, 1085, 1086, 1089, 1090, 1100>>),
        \* нпл
        Lit(<<1085, 1087, 1083>>)
    >> ],
    [ name |-> "capital_adequacy_ratio", patterns |-> <<
        \* коэффициент.*адекватности
        Lit(<<1082, 1086, 1101, 1092, 1092, 1080, 1094, 1080, 1077, 1085, 1090>>) \o AnyStar
            \o Lit(<<1072, 1076, 1077, 1082, 1074, 1072, 1090, 1085, 1086, 1089, 1090, 1080>>),
        \* базель
        Lit(<<1073, 1072, 1079, 1077, 1083, 1100>>),
        \* капитал.*уровень
        Lit(<<1082, 1072, 1087, 1080, 1090, 1072, 1083>>) \o AnyStar \o Lit(<<1091, 1088,
            1086, 1074, 1077, 1085, 1100>>),
        \* cet1
        Lit(<<99, 101, 116, 49>>),
        \* базовый капитал
        Lit(<<1073, 1072, 1079, 1086, 1074, 1099, 1081, 32, 1082, 1072, 1087, 1080, 1090,
            1072, 1083>>)
    >> ],
    [ name |-> "digital_penetration", patterns |-> <<
        \* доля цифровых клиентов
        Lit(<<1076, 1086, 1083, 1103, 32, 1094, 1080, 1092, 1088, 1086, 1074, 1099, 1093,
            32, 1082, 1083, 1080, 1077, 1085, 1090, 1086, 1074>>),
        \* цифровая проницаемость
        Lit(<<1094, 1080, 1092, 1088, 1086, 1074, 1072, 1103, 32, 1087, 1088, 1086, 1085,
            1080, 1094, 1072, 1077, 1084, 1086, 1089, 1090, 1100>>),
        \* цифровые клиенты.*доля
        Lit(<<1094, 1080, 1092, 1088, 1086, 1074, 1099, 1077, 32, 1082, 1083, 1080, 1077,
            1085, 1090, 1099>>) \o AnyStar \o Lit(<<1076, 1086, 1083, 1103>>),
        \* цифровизация.*клиентов
        Lit(<<1094, 1080, 1092, 1088, 1086, 1074, 1080, 1079, 1072, 1094, 1080, 1103>>) \o
            AnyStar \o Lit(<<1082, 1083, 1080, 1077, 1085, 1090, 1086, 1074>>)
    >> ],
    [ name |-> "mobile_penetration", patterns |-> <<
        \* мобильная проницаемость
        Lit(<<1084, 1086, 1073, 1080, 1083, 1100, 1085, 1072, 1103, 32, 1087, 1088, 1086,
            1085, 1080, 1094, 1072, 1077, 1084, 1086, 1089, 1090, 1100>>),
        \* доля мобильных клиентов
        Lit(<<1076, 1086, 1083, 1103, 32, 1084, 1086, 1073, 1080, 1083, 1100, 1085, 1099,
            1093, 32, 1082, 1083, 1080, 1077, 1085, 1090, 1086, 1074>>),
        \* мобильный банкинг.*доля
        Lit(<<1084, 1086, 1073, 1080, 1083, 1100, 1085, 1099, 1081, 32, 1073, 1072, 1085,
            1082, 1080, 1085, 1075>>) \o AnyStar \o Lit(<<1076, 1086, 1083, 1103>>),
        \* мобильные.*клиенты
        Lit(<<1084, 1086, 1073, 1080, 1083, 1100, 1085, 1099, 1077>>) \o AnyStar \o
            Lit(<<1082, 1083, 1080, 1077, 1085, 1090, 1099>>)
    >> ],
    [ name |-> "active_digital_customers", patterns |-> <<
        \* активные цифровые клиенты
        Lit(<<1072, 1082, 1090, 1080, 1074, 1085, 1099, 1077, 32, 1094, 1080, 1092, 1088,
            1086, 1074, 1099, 1077, 32, 1082, 1083, 1080, 1077, 1085, 1090, 1099>>),
        \* mau
        Lit(<<109, 97, 117>>),
        \* активные пользователи
        Lit(<<1072, 1082, 1090, 1080, 1074, 1085, 1099, 1077, 32, 1087, 1086, 1083, 1100,
            1079, 1086, 1074, 1072, 1090, 1077, 1083, 1080>>),
        \* активные клиенты.*мобильный
        Lit(<<1072, 1082, 1090, 1080, 1074, 1085, 1099, 1077, 32, 1082, 1083, 1080, 1077,
            1085, 1090, 1099>>) \o AnyStar \o Lit(<<1084, 1086, 1073, 1080, 1083, 1100, 1085,
            1099, 1081>>),
        \* активные.*цифровые
        Lit(<<1072, 1082, 1090, 1080, 1074, 1085, 1099, 1077>>) \o AnyStar \o Lit(<<1094,
            1080, 1092, 1088, 1086, 1074, 1099, 1077>>)
    >> ],
    [ name |-> "number_of_branches", patterns |-> <<
        \* количество отделений
        Lit(<<1082, 1086, 1083, 1080, 1095, 1077, 1089, 1090, 1074, 1086, 32, 1086, 1090,
            1076, 1077, 1083, 1077, 1085, 1080, 1081>>),
        \* число отделений
        Lit(<<1095, 1080, 1089, 1083, 1086, 32, 1086, 1090, 1076, 1077, 1083, 1077, 1085,
            1080, 1081>>),
        \* сеть отделений
        Lit(<<1089, 1077, 1090, 1100, 32, 1086, 1090, 1076, 1077, 1083, 1077, 1085, 1080,
            1081>>),
        \* отделения и филиалы.*количество
        Lit(<<1086, 1090, 1076, 1077, 1083, 1077, 1085, 1080, 1103, 32, 1080, 32, 1092,
            1080, 1083, 1080, 1072, 1083, 1099>>) \o AnyStar \o Lit(<<1082, 1086, 1083, 1080,
            1095, 1077, 1089, 1090, 1074, 1086>>),
        \* офисы.*количество
        Lit(<<1086, 1092, 1080, 1089, 1099>>) \o AnyStar \o Lit(<<1082, 1086, 1083, 1080,
            1095, 1077, 1089, 1090, 1074, 1086>>)
    >> ],
    [ name |-> "it_staff", patterns |-> <<
        \* it-персонал
        Lit(<<105, 116, 45, 1087, 1077, 1088, 1089, 1086, 1085, 1072, 1083>>),
        \* технический персонал
        Lit(<<1090, 1077, 1093, 1085, 1080, 1095, 1077, 1089, 1082, 1080, 1081, 32, 1087,
            1077, 1088, 1089, 1086, 1085, 1072, 1083>>),
        \* it staff
        Lit(<<105, 116, 32, 115, 116, 97, 102, 102>>),
        \* сотрудники.*информационные технологии
        Lit(<<1089, 1086, 1090, 1088, 1091, 1076, 1085, 1080, 1082, 1080>>) \o AnyStar \o
            Lit(<<1080, 1085, 1092, 1086, 1088, 1084, 1072, 1094, 1080, 1086, 1085, 1085, 1099,
            1077, 32, 1090, 1077, 1093, 1085, 1086, 1083, 1086, 1075, 1080, 1080>>),
        \* специалисты.*ит
        Lit(<<1089, 1087, 1077, 1094, 1080, 1072, 1083, 1080, 1089, 1090, 1099>>) \o AnyStar
            \o Lit(<<1080, 1090>>)
    >> ],
    [ name |-> "api_count", patterns |-> <<
        \* api
        Lit(<<97, 112, 105>>),
        \* интерфейс прикладного программирования
        Lit(<<1080, 1085, 1090, 1077, 1088, 1092, 1077, 1081, 1089, 32, 1087, 1088, 1080,
            1082, 1083, 1072, 1076, 1085, 1086, 1075, 1086, 32, 1087, 1088, 1086, 1075, 1088,
            1072, 1084, 1084, 1080, 1088, 1086, 1074, 1072, 1085, 1080, 1103>>),
        \* открытые api
        Lit(<<1086, 1090, 1082, 1088, 1099, 1090, 1099, 1077, 32, 97, 112, 105>>),
        \* api.*интеграция
        Lit(<<97, 112, 105>>) \o AnyStar \o Lit(<<1080, 1085, 1090, 1077, 1075, 1088, 1072,
            1094, 1080, 1103>>)
    >> ],
    [ name |-> "paperless_operations", patterns |-> <<
        \* безбумажный
        Lit(<<1073, 1077, 1079, 1073, 1091, 1084, 1072, 1078, 1085, 1099, 1081>>),
        \* безбумажные операции
        Lit(<<1073, 1077, 1079, 1073, 1091, 1084, 1072, 1078, 1085, 1099, 1077, 32, 1086,
            1087, 1077, 1088, 1072, 1094, 1080, 1080>>),
        \* безбумажные процессы
        Lit(<<1073, 1077, 1079, 1073, 1091, 1084, 1072, 1078, 1085, 1099, 1077, 32, 1087,
            1088, 1086, 1094, 1077, 1089, 1089, 1099>>),
        \* электронный документооборот
        Lit(<<1101, 1083, 1077, 1082, 1090, 1088, 1086, 1085, 1085, 1099, 1081, 32, 1076,
            1086, 1082, 1091, 1084, 1077, 1085, 1090, 1086, 1086, 1073, 1086, 1088, 1086,
            1090>>)
    >> ],
    [ name |-> "electronic_signature_usage", patterns |-> <<
        \* электронная подпись
        Lit(<<1101, 1083, 1077, 1082, 1090, 1088, 1086, 1085, 1085, 1072, 1103, 32, 1087,
            1086, 1076, 1087, 1080, 1089, 1100>>),
        \* цифровая подпись
        Lit(<<1094, 1080, 1092, 1088, 1086, 1074, 1072, 1103, 32, 1087, 1086, 1076, 1087,
            1080, 1089, 1100>>),
        \* e-подпись
        Lit(<<101, 45, 1087, 1086, 1076, 1087, 1080, 1089, 1100>>),
        \* эцп
        Lit(<<1101, 1094, 1087>>),
        \* электронно-цифровая подпись
        Lit(<<1101, 1083, 1077, 1082, 1090, 1088, 1086, 1085, 1085, 1086, 45, 1094, 1080,
            1092, 1088, 1086, 1074, 1072, 1103, 32, 1087, 1086, 1076, 1087, 1080, 1089, 1100>>)
    >> ],
    [ name |-> "remote_account_opening", patterns |-> <<
        \* удаленное открытие счета
        Lit(<<1091, 1076, 1072, 1083, 1077, 1085, 1085, 1086, 1077, 32, 1086, 1090, 1082,
            1088, 1099, 1090, 1080, 1077, 32, 1089, 1095, 1077, 1090, 1072>>),
        \* дистанционное открытие счета
        Lit(<<1076, 1080, 1089, 1090, 1072, 1085, 1094, 1080, 1086, 1085, 1085, 1086, 1077,
            32, 1086, 1090, 1082, 1088, 1099, 1090, 1080, 1077, 32, 1089, 1095, 1077, 1090,
            1072>>),
        \* онлайн-открытие счета
        Lit(<<1086, 1085, 1083, 1072, 1081, 1085, 45, 1086, 1090, 1082, 1088, 1099, 1090,
            1080, 1077, 32, 1089, 1095, 1077, 1090, 1072>>),
        \* цифровое открытие счета
        Lit(<<1094, 1080, 1092, 1088, 1086, 1074, 1086, 1077, 32, 1086, 1090, 1082, 1088,
            1099, 1090, 1080, 1077, 32, 1089, 1095, 1077, 1090, 1072>>)
    >> ],
    [ name |-> "churn_rate", patterns |-> <<
        \* коэффициент оттока
        Lit(<<1082, 1086, 1101, 1092, 1092, 1080, 1094, 1080, 1077, 1085, 1090, 32, 1086,
            1090, 1090, 1086, 1082, 1072>>),
        \* отток клиентов
        Lit(<<1086, 1090, 1090, 1086, 1082, 32, 1082, 1083, 1080, 1077, 1085, 1090, 1086,
            1074>>),
        \* churn
        Lit(<<99, 104, 117, 114, 110>>),
        \* отток.*клиенты
        Lit(<<1086, 1090, 1090, 1086, 1082>>) \o AnyStar \o Lit(<<1082, 1083, 1080, 1077,
            1085, 1090, 1099>>)
    >> ],
    [ name |-> "retention_rate", patterns |-> <<
        \* коэффициент удержания
        Lit(<<1082, 1086, 1101, 1092, 1092, 1080, 1094, 1080, 1077, 1085, 1090, 32, 1091,
            1076, 1077, 1088, 1078, 1072, 1085, 1080, 1103>>),
        \* удержание клиентов
        Lit(<<1091, 1076, 1077, 1088, 1078, 1072, 1085, 1080, 1077, 32, 1082, 1083, 1080,
            1077, 1085, 1090, 1086, 1074>>),
        \* лояльность
        Lit(<<1083, 1086, 1103, 1083, 1100, 1085, 1086, 1089, 1090, 1100>>),
        \* удержание.*клиенты
        Lit(<<1091, 1076, 1077, 1088, 1078, 1072, 1085, 1080, 1077>>) \o AnyStar \o
            Lit(<<1082, 1083, 1080, 1077, 1085, 1090, 1099>>)
    >> ],
    [ name |-> "products_per_customer", patterns |-> <<
        \* продукты на клиента
        Lit(<<1087, 1088, 1086, 1076, 1091, 1082, 1090, 1099, 32, 1085, 1072, 32, 1082,
            1083, 1080, 1077, 1085, 1090, 1072>>),
        \* количество продуктов на клиента
        Lit(<<1082, 1086, 1083, 1080, 1095, 1077, 1089, 1090, 1074, 1086, 32, 1087, 1088,
            1086, 1076, 1091, 1082, 1090, 1086, 1074, 32, 1085, 1072, 32, 1082, 1083, 1080,
            1077, 1085, 1090, 1072>>),
        \* среднее число продуктов
        Lit(<<1089, 1088, 1077, 1076, 1085, 1077, 1077, 32, 1095, 1080, 1089, 1083, 1086,
            32, 1087, 1088, 1086, 1076, 1091, 1082, 1090, 1086, 1074>>),
        \* продуктовая.*корзина
        Lit(<<1087, 1088, 1086, 1076, 1091, 1082, 1090, 1086, 1074, 1072, 1103>>) \o AnyStar
            \o Lit(<<1082, 1086, 1088, 1079, 1080, 1085, 1072>>)
    >> ],
    [ name |-> "cross_sell_rate", patterns |-> <<
        \* кросс-продажи
        Lit(<<1082, 1088, 1086, 1089, 1089, 45, 1087, 1088, 1086, 1076, 1072, 1078, 1080>>),
        \* перекрестные продажи
        Lit(<<1087, 1077, 1088, 1077, 1082, 1088, 1077, 1089, 1090, 1085, 1099, 1077, 32,
            1087, 1088, 1086, 1076, 1072, 1078, 1080>>),
        \* дополнительные продукты
        Lit(<<1076, 1086, 1087, 1086, 1083, 1085, 1080, 1090, 1077, 1083, 1100, 1085, 1099,
            1077, 32, 1087, 1088, 1086, 1076, 1091, 1082, 1090, 1099>>),
        \* кросс.*продажи
        Lit(<<1082, 1088, 1086, 1089, 1089>>) \o AnyStar \o Lit(<<1087, 1088, 1086, 1076,
            1072, 1078, 1080>>)
    >> ],
    [ name |-> "wallet_share", patterns |-> <<
        \* доля кошелька
        Lit(<<1076, 1086, 1083, 1103, 32, 1082, 1086, 1096, 1077, 1083, 1100, 1082, 1072>>),
        \* рыночная доля
        Lit(<<1088, 1099, 1085, 1086, 1095, 1085, 1072, 1103, 32, 1076, 1086, 1083, 1103>>),
        \* доля рынка
        Lit(<<1076, 1086, 1083, 1103, 32, 1088, 1099, 1085, 1082, 1072>>),
        \* кошелек.*клиента
        Lit(<<1082, 1086, 1096, 1077, 1083, 1077, 1082>>) \o AnyStar \o Lit(<<1082, 1083,
            1080, 1077, 1085, 1090, 1072>>)
    >> ],
    [ name |-> "credit_cost", patterns |-> <<
        \* стоимость кредитов
        Lit(<<1089, 1090, 1086, 1080, 1084, 1086, 1089, 1090, 1100, 32, 1082, 1088, 1077,
            1076, 1080, 1090, 1086, 1074>>),
        \* стоимость риска
        Lit(<<1089, 1090, 1086, 1080, 1084, 1086, 1089, 1090, 1100, 32, 1088, 1080, 1089,
            1082, 1072>>),
        \* кор
        Lit(<<1082, 1086, 1088>>),
        \* резервы.*кредитные убытки
        Lit(<<1088, 1077, 1079, 1077, 1088, 1074, 1099>>) \o AnyStar \o Lit(<<1082, 1088,
            1077, 1076, 1080, 1090, 1085, 1099, 1077, 32, 1091, 1073, 1099, 1090, 1082, 1080>>),
        \* стоимость.*кредитования
        Lit(<<1089, 1090, 1086, 1080, 1084, 1086, 1089, 1090, 1100>>) \o AnyStar \o
            Lit(<<1082, 1088, 1077, 1076, 1080, 1090, 1086, 1074, 1072, 1085, 1080, 1103>>)
    >> ],
    [ name |-> "loan_loss_provision_coverage", patterns |-> <<
        \* резервы под кредитные убытки к проблемным кредитам
        Lit(<<1088, 1077, 1079, 1077, 1088, 1074, 1099, 32, 1087, 1086, 1076, 32, 1082,
            1088, 1077, 1076, 1080, 1090, 1085, 1099, 1077, 32, 1091, 1073, 1099, 1090, 1082,
            1080, 32, 1082, 32, 1087, 1088, 1086, 1073, 1083, 1077, 1084, 1085, 1099, 1084, 32,
            1082, 1088, 1077, 1076, 1080, 1090, 1072, 1084>>),
        \* коэффициент резервирования
        Lit(<<1082, 1086, 1101, 1092, 1092, 1080, 1094, 1080, 1077, 1085, 1090, 32, 1088,
            1077, 1079, 1077, 1088, 1074, 1080, 1088, 1086, 1074, 1072, 1085, 1080, 1103>>),
        \* покрытие нпл резервами
        Lit(<<1087, 1086, 1082, 1088, 1099, 1090, 1080, 1077, 32, 1085, 1087, 1083, 32,
            1088, 1077, 1079, 1077, 1088, 1074, 1072, 1084, 1080>>),
        \* резервы.*нпл
        Lit(<<1088, 1077, 1079, 1077, 1088, 1074, 1099>>) \o AnyStar \o Lit(<<1085, 1087,
            1083>>)
    >> ],
    [ name |-> "net_interest_income", patterns |-> <<
        \* чистый процентный доход
        Lit(<<1095, 1080, 1089, 1090, 1099, 1081, 32, 1087, 1088, 1086, 1094, 1077, 1085,
            1090, 1085, 1099, 1081, 32, 1076, 1086, 1093, 1086, 1076>>),
        \* процентный доход.*чистый
        Lit(<<1087, 1088, 1086, 1094, 1077, 1085, 1090, 1085, 1099, 1081, 32, 1076, 1086,
            1093, 1086, 1076>>) \o AnyStar \o Lit(<<1095, 1080, 1089, 1090, 1099, 1081>>),
        \* nii
        Lit(<<110, 105, 105>>)
    >> ],
    [ name |-> "subordinated_debt", patterns |-> <<
        \* субординированный долг
        Lit(<<1089, 1091, 1073, 1086, 1088, 1076, 1080, 1085, 1080, 1088, 1086, 1074, 1072,
            1085, 1085, 1099, 1081, 32, 1076, 1086, 1083, 1075>>),
        \* субординированные обязательства
        Lit(<<1089, 1091, 1073, 1086, 1088, 1076, 1080, 1085, 1080, 1088, 1086, 1074, 1072,
            1085, 1085, 1099, 1077, 32, 1086, 1073, 1103, 1079, 1072, 1090, 1077, 1083, 1100,
            1089, 1090, 1074, 1072>>)
    >> ],
    [ name |-> "interest_earning_assets", patterns |-> <<
        \* процентные активы
        Lit(<<1087, 1088, 1086, 1094, 1077, 1085, 1090, 1085, 1099, 1077, 32, 1072, 1082,
            1090, 1080, 1074, 1099>>),
        \* доходные активы
        Lit(<<1076, 1086, 1093, 1086, 1076, 1085, 1099, 1077, 32, 1072, 1082, 1090, 1080,
            1074, 1099>>)
    >> ],
    [ name |-> "interest_bearing_liabilities", patterns |-> <<
        \* процентные обязательства
        Lit(<<1087, 1088, 1086, 1094, 1077, 1085, 1090, 1085, 1099, 1077, 32, 1086, 1073,
            1103, 1079, 1072, 1090, 1077, 1083, 1100, 1089, 1090, 1074, 1072>>),
        \* доходные обязательства
        Lit(<<1076, 1086, 1093, 1086, 1076, 1085, 1099, 1077, 32, 1086, 1073, 1103, 1079,
            1072, 1090, 1077, 1083, 1100, 1089, 1090, 1074, 1072>>)
    >> ],
    [ name |-> "net_interest_spread", patterns |-> <<
        \* процентный спред
        Lit(<<1087, 1088, 1086, 1094, 1077, 1085, 1090, 1085, 1099, 1081, 32, 1089, 1087,
            1088, 1077, 1076>>),
        \* разница ставок
        Lit(<<1088, 1072, 1079, 1085, 1080, 1094, 1072, 32, 1089, 1090, 1072, 1074, 1086,
            1082>>)
    >> ],
    [ name |-> "interbank_assets", patterns |-> <<
        \* межбанковские активы
        Lit(<<1084, 1077, 1078, 1073, 1072, 1085, 1082, 1086, 1074, 1089, 1082, 1080, 1077,
            32, 1072, 1082, 1090, 1080, 1074, 1099>>),
        \* активы.*межбанк
        Lit(<<1072, 1082, 1090, 1080, 1074, 1099>>) \o AnyStar \o Lit(<<1084, 1077, 1078,
            1073, 1072, 1085, 1082>>)
    >> ],
    [ name |-> "interbank_liabilities", patterns |-> <<
        \* межбанковские обязательства
        Lit(<<1084, 1077, 1078, 1073, 1072, 1085, 1082, 1086, 1074, 1089, 1082, 1080, 1077,
            32, 1086, 1073, 1103, 1079, 1072, 1090, 1077, 1083, 1100, 1089, 1090, 1074, 1072>>),
        \* обязательства.*межбанк
        Lit(<<1086, 1073, 1103, 1079, 1072, 1090, 1077, 1083, 1100, 1089, 1090, 1074,
            1072>>) \o AnyStar \o Lit(<<1084, 1077, 1078, 1073, 1072, 1085, 1082>>)
    >> ],
    [ name |-> "equity_to_debt_ratio", patterns |-> <<
        \* соотношение собственного капитала к заемному
        Lit(<<1089, 1086, 1086, 1090, 1085, 1086, 1096, 1077, 1085, 1080, 1077, 32, 1089,
            1086, 1073, 1089, 1090, 1074, 1077, 1085, 1085, 1086, 1075, 1086, 32, 1082, 1072,
            1087, 1080, 1090, 1072, 1083, 1072, 32, 1082, 32, 1079, 1072, 1077, 1084, 1085,
            1086, 1084, 1091>>),
        \* капитал.*долг
        Lit(<<1082, 1072, 1087, 1080, 1090, 1072, 1083>>) \o AnyStar \o Lit(<<1076, 1086,
            1083, 1075>>)
    >> ],
    [ name |-> "retained_earnings_to_total_assets", patterns |-> <<
        \* соотношение нераспределенной прибыли к активам
        Lit(<<1089, 1086, 1086, 1090, 1085, 1086, 1096, 1077, 1085, 1080, 1077, 32, 1085,
            1077, 1088, 1072, 1089, 1087, 1088, 1077, 1076, 1077, 1083, 1077, 1085, 1085, 1086,
            1081, 32, 1087, 1088, 1080, 1073, 1099, 1083, 1080, 32, 1082, 32, 1072, 1082, 1090,
            1080, 1074, 1072, 1084>>),
        \* нераспределенная прибыль.*активы
        Lit(<<1085, 1077, 1088, 1072, 1089, 1087, 1088, 1077, 1076, 1077, 1083, 1077, 1085,
            1085, 1072, 1103, 32, 1087, 1088, 1080, 1073, 1099, 1083, 1100>>) \o AnyStar \o
            Lit(<<1072, 1082, 1090, 1080, 1074, 1099>>)
    >> ],
    [ name |-> "ebit_to_total_assets", patterns |-> <<
        \* соотношение прибыли до вычета процентов и налогов к активам
        Lit(<<1089, 1086, 1086, 1090, 1085, 1086, 1096, 1077, 1085, 1080, 1077, 32, 1087,
            1088, 1080, 1073, 1099, 1083, 1080, 32, 1076, 1086, 32, 1074, 1099, 1095, 1077,
            1090, 1072, 32, 1087, 1088, 1086, 1094, 1077, 1085, 1090, 1086, 1074, 32, 1080, 32,
            1085, 1072, 1083, 1086, 1075, 1086, 1074, 32, 1082, 32, 1072, 1082, 1090, 1080,
            1074, 1072, 1084>>),
        \* ebit.*активы
        Lit(<<101, 98, 105, 116>>) \o AnyStar \o Lit(<<1072, 1082, 1090, 1080, 1074, 1099>>)
    >> ],
    [ name |-> "total_assets_turnover", patterns |-> <<
        \* оборачиваемость активов
        Lit(<<1086, 1073, 1086, 1088, 1072, 1095, 1080, 1074, 1072, 1077, 1084, 1086, 1089,
            1090, 1100, 32, 1072, 1082, 1090, 1080, 1074, 1086, 1074>>),
        \* оборот активов
        Lit(<<1086, 1073, 1086, 1088, 1086, 1090, 32, 1072, 1082, 1090, 1080, 1074, 1086,
            1074>>)
    >> ],
    [ name |-> "return_on_net_assets", patterns |-> <<
        \* рентабельность чистых активов
        Lit(<<1088, 1077, 1085, 1090, 1072, 1073, 1077, 1083, 1100, 1085, 1086, 1089, 1090,
            1100, 32, 1095, 1080, 1089, 1090, 1099, 1093, 32, 1072, 1082, 1090, 1080, 1074,
            1086, 1074>>),
        \* рна
        Lit(<<1088, 1085, 1072>>)
    >> ],
    [ name |-> "return_on_average_total_assets", patterns |-> <<
        \* рентабельность средних активов
        Lit(<<1088, 1077, 1085, 1090, 1072, 1073, 1077, 1083, 1100, 1085, 1086, 1089, 1090,
            1100, 32, 1089, 1088, 1077, 1076, 1085, 1080, 1093, 32, 1072, 1082, 1090, 1080,
            1074, 1086, 1074>>),
        \* рсна
        Lit(<<1088, 1089, 1085, 1072>>)
    >> ],
    [ name |-> "return_on_net_assets_after_deducting_non_recurring", patterns |-> <<
        \* рентабельность чистых активов после исключения разовых факторов
        Lit(<<1088, 1077, 1085, 1090, 1072, 1073, 1077, 1083, 1100, 1085, 1086, 1089, 1090,
            1100, 32, 1095, 1080, 1089, 1090, 1099, 1093, 32, 1072, 1082, 1090, 1080, 1074,
            1086, 1074, 32, 1087, 1086, 1089, 1083, 1077, 32, 1080, 1089, 1082, 1083, 1102,
            1095, 1077, 1085, 1080, 1103, 32, 1088, 1072, 1079, 1086, 1074, 1099, 1093, 32,
            1092, 1072, 1082, 1090, 1086, 1088, 1086, 1074>>),
        \* рнапосле
        Lit(<<1088, 1085, 1072, 1087, 1086, 1089, 1083, 1077>>)
    >> ],
    [ name |-> "interbank_assets_to_interest_earning_assets", patterns |-> <<
        \* соотношение межбанковских активов к процентным активам
        Lit(<<1089, 1086, 1086, 1090, 1085, 1086, 1096, 1077, 1085, 1080, 1077, 32, 1084,
            1077, 1078, 1073, 1072, 1085, 1082, 1086, 1074, 1089, 1082, 1080, 1093, 32, 1072,
            1082, 1090, 1080, 1074, 1086, 1074, 32, 1082, 32, 1087, 1088, 1086, 1094, 1077,
            1085, 1090, 1085, 1099, 1084, 32, 1072, 1082, 1090, 1080, 1074, 1072, 1084>>),
        \* межбанк.*доходные активы
        Lit(<<1084, 1077, 1078, 1073, 1072, 1085, 1082>>) \o AnyStar \o Lit(<<1076, 1086,
            1093, 1086, 1076, 1085, 1099, 1077, 32, 1072, 1082, 1090, 1080, 1074, 1099>>)
    >> ],
    [ name |-> "deposits_to_interest_bearing_liabilities", patterns |-> <<
        \* соотношение депозитов к процентным обязательствам
        Lit(<<1089, 1086, 1086, 1090, 1085, 1086, 1096, 1077, 1085, 1080, 1077, 32, 1076,
            1077, 1087, 1086, 1079, 1080, 1090, 1086, 1074, 32, 1082, 32, 1087, 1088, 1086,
            1094, 1077, 1085, 1090, 1085, 1099, 1084, 32, 1086, 1073, 1103, 1079, 1072, 1090,
            1077, 1083, 1100, 1089, 1090, 1074, 1072, 1084>>),
        \* депозиты.*процентные обязательства
        Lit(<<1076, 1077, 1087, 1086, 1079, 1080, 1090, 1099>>) \o AnyStar \o Lit(<<1087,
            1088, 1086, 1094, 1077, 1085, 1090, 1085, 1099, 1077, 32, 1086, 1073, 1103, 1079,
            1072, 1090, 1077, 1083, 1100, 1089, 1090, 1074, 1072>>)
    >> ],
    [ name |-> "interbank_liabilities_to_interest_bearing_liabilities", patterns |-> <<
        \* соотношение межбанковских обязательств к процентным обязательствам
        Lit(<<1089, 1086, 1086, 1090, 1085, 1086, 1096, 1077, 1085, 1080, 1077, 32, 1084,
            1077, 1078, 1073, 1072, 1085, 1082, 1086, 1074, 1089, 1082, 1080, 1093, 32, 1086,
            1073, 1103, 1079, 1072, 1090, 1077, 1083, 1100, 1089, 1090, 1074, 32, 1082, 32,
            1087, 1088, 1086, 1094, 1077, 1085, 1090, 1085, 1099, 1084, 32, 1086, 1073, 1103,
            1079, 1072, 1090, 1077, 1083, 1100, 1089, 1090, 1074, 1072, 1084>>),
        \* межбанк.*процентные обязательства
        Lit(<<1084, 1077, 1078, 1073, 1072, 1085, 1082>>) \o AnyStar \o Lit(<<1087, 1088,
            1086, 1094, 1077, 1085, 1090, 1085, 1099, 1077, 32, 1086, 1073, 1103, 1079, 1072,
            1090, 1077, 1083, 1100, 1089, 1090, 1074, 1072>>)
    >> ]
    >>

\* data_aggregator.py 149-159: the unit patterns in order. The source writes each
\* backslash twice in a raw string, so  \\.?  is a backslash and an optional
\* character, and  \\s*  a backslash and any number of letters s.
unit_patterns ==
    <<
        \* млрд\\.?\\s*р\\.?
        [ pattern |-> Lit(<<1084, 1083, 1088, 1076, 92>>) \o AnyOpt \o Lit(<<92>>) \o
                      LitStar(115) \o Lit(<<1088, 92>>) \o AnyOpt,
          multiplier |-> Dec(1, 9) ],
        \* млрд\\.?\\s*руб\\.?
        [ pattern |-> Lit(<<1084, 1083, 1088, 1076, 92>>) \o AnyOpt \o Lit(<<92>>) \o
                      LitStar(115) \o Lit(<<1088, 1091, 1073, 92>>) \o AnyOpt,
          multiplier |-> Dec(1, 9) ],
        \* млрд
        [ pattern |-> Lit(<<1084, 1083, 1088, 1076>>),
          multiplier |-> Dec(1, 9) ],
        \* млн\\.?\\s*р\\.?
        [ pattern |-> Lit(<<1084, 1083, 1085, 92>>) \o AnyOpt \o Lit(<<92>>) \o LitStar(115) \o
                      Lit(<<1088, 92>>) \o AnyOpt,
          multiplier |-> Dec(1, 6) ],
        \* млн\\.?\\s*руб\\.?
        [ pattern |-> Lit(<<1084, 1083, 1085, 92>>) \o AnyOpt \o Lit(<<92>>) \o LitStar(115) \o
                      Lit(<<1088, 1091, 1073, 92>>) \o AnyOpt,
          multiplier |-> Dec(1, 6) ],
        \* млн
        [ pattern |-> Lit(<<1084, 1083, 1085>>),
          multiplier |-> Dec(1, 6) ],
        \* тыс\\.?\\s*р\\.?
        [ pattern |-> Lit(<<1090, 1099, 1089, 92>>) \o AnyOpt \o Lit(<<92>>) \o LitStar(115) \o
                      Lit(<<1088, 92>>) \o AnyOpt,
          multiplier |-> Dec(1, 3) ],
        \* тыс\\.?\\s*руб\\.?
        [ pattern |-> Lit(<<1090, 1099, 1089, 92>>) \o AnyOpt \o Lit(<<92>>) \o LitStar(115) \o
                      Lit(<<1088, 1091, 1073, 92>>) \o AnyOpt,
          multiplier |-> Dec(1, 3) ],
        \* тыс
        [ pattern |-> Lit(<<1090, 1099, 1089>>),
          multiplier |-> Dec(1, 3) ]
    >>
-----------------------------------------------------------------------------
(* The keys of the result dictionary as text                               *)

\* data_aggregator.py 27-76: the keys in the order of the dictionary
KeyOrder ==
    <<
      "total_assets", "total_liabilities", "equity", "net_income", "cash_and_equivalents",
      "loans_to_customers", "deposits_from_customers", "operating_income",
      "operating_profit", "roa", "roe", "net_interest_margin", "cost_to_income_ratio",
      "non_performing_loan_ratio", "capital_adequacy_ratio", "current_liquidity_ratio",
      "instant_liquidity_ratio", "digital_penetration", "mobile_penetration",
      "active_digital_customers", "number_of_branches", "it_staff", "api_count",
      "paperless_operations", "electronic_signature_usage", "remote_account_opening",
      "churn_rate", "retention_rate", "products_per_customer", "cross_sell_rate",
      "wallet_share", "credit_cost", "loan_loss_provision_coverage", "net_interest_income",
      "subordinated_debt", "interest_earning_assets", "interest_bearing_liabilities",
      "net_interest_spread", "interbank_assets", "interbank_liabilities",
      "equity_to_debt_ratio", "retained_earnings_to_total_assets", "ebit_to_total_assets",
      "total_assets_turnover", "return_on_net_assets", "return_on_average_total_assets",
      "return_on_net_assets_after_deducting_non_recurring",
      "interbank_assets_to_interest_earning_assets",
      "deposits_to_interest_bearing_liabilities",
      "interbank_liabilities_to_interest_bearing_liabilities"
    >>

\* the characters of each key
KeyText ==
    [ total_assets |-> <<116, 111, 116, 97, 108, 95, 97, 115, 115, 101, 116, 115>>,
      total_liabilities |-> <<116, 111, 116, 97, 108, 95, 108, 105, 97, 98, 105, 108, 105, 116,
          105, 101, 115>>,
      equity |-> <<101, 113, 117, 105, 116, 121>>,
      net_income |-> <<110, 101, 116, 95, 105, 110, 99, 111, 109, 101>>,
      cash_and_equivalents |-> <<99, 97, 115, 104, 95, 97, 110, 100, 95, 101, 113, 117, 105,
          118, 97, 108, 101, 110, 116, 115>>,
      loans_to_customers |-> <<108, 111, 97, 110, 115, 95, 116, 111, 95, 99, 117, 115, 116,
          111, 109, 101, 114, 115>>,
      deposits_from_customers |-> <<100, 101, 112, 111, 115, 105, 116, 115, 95, 102, 114, 111,
          109, 95, 99, 117, 115, 116, 111, 109, 101, 114, 115>>,
      operating_income |-> <<111, 112, 101, 114, 97, 116, 105, 110, 103, 95, 105, 110, 99, 111,
          109, 101>>,
      operating_profit |-> <<111, 112, 101, 114, 97, 116, 105, 110, 103, 95, 112, 114, 111,
          102, 105, 116>>,
      roa |-> <<114, 111, 97>>,
      roe |-> <<114, 111, 101>>,
      net_interest_margin |-> <<110, 101, 116, 95, 105, 110, 116, 101, 114, 101, 115, 116, 95,
          109, 97, 114, 103, 105, 110>>,
      cost_to_income_ratio |-> <<99, 111, 115, 116, 95, 116, 111, 95, 105, 110, 99, 111, 109,
          101, 95, 114, 97, 116, 105, 111>>,
      non_performing_loan_ratio |-> <<110, 111, 110, 95, 112, 101, 114, 102, 111, 114, 109,
          105, 110, 103, 95, 108, 111, 97, 110, 95, 114, 97, 116, 105, 111>>,
      capital_adequacy_ratio |-> <<99, 97, 112, 105, 116, 97, 108, 95, 97, 100, 101, 113, 117,
          97, 99, 121, 95, 114, 97, 116, 105, 111>>,
      current_liquidity_ratio |-> <<99, 117, 114, 114, 101, 110, 116, 95, 108, 105, 113, 117,
          105, 100, 105, 116, 121, 95, 114, 97, 116, 105, 111>>,
      instant_liquidity_ratio |-> <<105, 110, 115, 116, 97, 110, 116, 95, 108, 105, 113, 117,
          105, 100, 105, 116, 121, 95, 114, 97, 116, 105, 111>>,
      digital_penetration |-> <<100, 105, 103, 105, 116, 97, 108, 95, 112, 101, 110, 101, 116,
          114, 97, 116, 105, 111, 110>>,
      mobile_penetration |-> <<109, 111, 98, 105, 108, 101, 95, 112, 101, 110, 101, 116, 114,
          97, 116, 105, 111, 110>>,
      active_digital_customers |-> <<97, 99, 116, 105, 118, 101, 95, 100, 105, 103, 105, 116,
          97, 108, 95, 99, 117, 115, 116, 111, 109, 101, 114, 115>>,
      number_of_branches |-> <<110, 117, 109, 98, 101, 114, 95, 111, 102, 95, 98, 114, 97, 110,
          99, 104, 101, 115>>,
      it_staff |-> <<105, 116, 95, 115, 116, 97, 102, 102>>,
      api_count |-> <<97, 112, 105, 95, 99, 111, 117, 110, 116>>,
      paperless_operations |-> <<112, 97, 112, 101, 114, 108, 101, 115, 115, 95, 111, 112, 101,
          114, 97, 116, 105, 111, 110, 115>>,
      electronic_signature_usage |-> <<101, 108, 101, 99, 116, 114, 111, 110, 105, 99, 95, 115,
          105, 103, 110, 97, 116, 117, 114, 101, 95, 117, 115, 97, 103, 101>>,
      remote_account_opening |-> <<114, 101, 109, 111, 116, 101, 95, 97, 99, 99, 111, 117, 110,
          116, 95, 111, 112, 101, 110, 105, 110, 103>>,
      churn_rate |-> <<99, 104, 117, 114, 110, 95, 114, 97, 116, 101>>,
      retention_rate |-> <<114, 101, 116, 101, 110, 116, 105, 111, 110, 95, 114, 97, 116, 101>>,
      products_per_customer |-> <<112, 114, 111, 100, 117, 99, 116, 115, 95, 112, 101, 114, 95,
          99, 117, 115, 116, 111, 109, 101, 114>>,
      cross_sell_rate |-> <<99, 114, 111, 115, 115, 95, 115, 101, 108, 108, 95, 114, 97, 116,
          101>>,
      wallet_share |-> <<119, 97, 108, 108, 101, 116, 95, 115, 104, 97, 114, 101>>,
      credit_cost |-> <<99, 114, 101, 100, 105, 116, 95, 99, 111, 115, 116>>,
      loan_loss_provision_coverage |-> <<108, 111, 97, 110, 95, 108, 111, 115, 115, 95, 112,
          114, 111, 118, 105, 115, 105, 111, 110, 95, 99, 111, 118, 101, 114, 97, 103, 101>>,
      net_interest_income |-> <<110, 101, 116, 95, 105, 110, 116, 101, 114, 101, 115, 116, 95,
          105, 110, 99, 111, 109, 101>>,
      subordinated_debt |-> <<115, 117, 98, 111, 114, 100, 105, 110, 97, 116, 101, 100, 95,
          100, 101, 98, 116>>,
      interest_earning_assets |-> <<105, 110, 116, 101, 114, 101, 115, 116, 95, 101, 97, 114,
          110, 105, 110, 103, 95, 97, 115, 115, 101, 116, 115>>,
      interest_bearing_liabilities |-> <<105, 110, 116, 101, 114, 101, 115, 116, 95, 98, 101,
          97, 114, 105, 110, 103, 95, 108, 105, 97, 98, 105, 108, 105, 116, 105, 101, 115>>,
      net_interest_spread |-> <<110, 101, 116, 95, 105, 110, 116, 101, 114, 101, 115, 116, 95,
          115, 112, 114, 101, 97, 100>>,
      interbank_assets |-> <<105, 110, 116, 101, 114, 98, 97, 110, 107, 95, 97, 115, 115, 101,
          116, 115>>,
      interbank_liabilities |-> <<105, 110, 116, 101, 114, 98, 97, 110, 107, 95, 108, 105, 97,
          98, 105, 108, 105, 116, 105, 101, 115>>,
      equity_to_debt_ratio |-> <<101, 113, 117, 105, 116, 121, 95, 116, 111, 95, 100, 101, 98,
          116, 95, 114, 97, 116, 105, 111>>,
      retained_earnings_to_total_assets |-> <<114, 101, 116, 97, 105, 110, 101, 100, 95, 101,
          97, 114, 110, 105, 110, 103, 115, 95, 116, 111, 95, 116, 111, 116, 97, 108, 95, 97,
          115, 115, 101, 116, 115>>,
      ebit_to_total_assets |-> <<101, 98, 105, 116, 95, 116, 111, 95, 116, 111, 116, 97, 108,
          95, 97, 115, 115, 101, 116, 115>>,
      total_assets_turnover |-> <<116, 111, 116, 97, 108, 95, 97, 115, 115, 101, 116, 115, 95,
          116, 117, 114, 110, 111, 118, 101, 114>>,
      return_on_net_assets |-> <<114, 101, 116, 117, 114, 110, 95, 111, 110, 95, 110, 101, 116,
          95, 97, 115, 115, 101, 116, 115>>,
      return_on_average_total_assets |-> <<114, 101, 116, 117, 114, 110, 95, 111, 110, 95, 97,
          118, 101, 114, 97, 103, 101, 95, 116, 111, 116, 97, 108, 95, 97, 115, 115, 101, 116,
          115>>,
      return_on_net_assets_after_deducting_non_recurring |-> <<114, 101, 116, 117, 114, 110,
          95, 111, 110, 95, 110, 101, 116, 95, 97, 115, 115, 101, 116, 115, 95, 97, 102, 116,
          101, 114, 95, 100, 101, 100, 117, 99, 116, 105, 110, 103, 95, 110, 111, 110, 95, 114,
          101, 99, 117, 114, 114, 105, 110, 103>>,
      interbank_assets_to_interest_earning_assets |-> <<105, 110, 116, 101, 114, 98, 97, 110,
          107, 95, 97, 115, 115, 101, 116, 115, 95, 116, 111, 95, 105, 110, 116, 101, 114, 101,
          115, 116, 95, 101, 97, 114, 110, 105, 110, 103, 95, 97, 115, 115, 101, 116, 115>>,
      deposits_to_interest_bearing_liabilities |-> <<100, 101, 112, 111, 115, 105, 116, 115,
          95, 116, 111, 95, 105, 110, 116, 101, 114, 101, 115, 116, 95, 98, 101, 97, 114, 105,
          110, 103, 95, 108, 105, 97, 98, 105, 108, 105, 116, 105, 101, 115>>,
      interbank_liabilities_to_interest_bearing_liabilities |-> <<105, 110, 116, 101, 114, 98,
          97, 110, 107, 95, 108, 105, 97, 98, 105, 108, 105, 116, 105, 101, 115, 95, 116, 111,
          95, 105, 110, 116, 101, 114, 101, 115, 116, 95, 98, 101, 97, 114, 105, 110, 103, 95,
          108, 105, 97, 98, 105, 108, 105, 116, 105, 101, 115>> ]
\* parse_number_with_unit, lines 170-177: the first unit pattern, in order, that
\* is found in val_str and whose removal leaves a number
RECURSIVE UnitLoop(_, _, _)
\* lines 176-177: return when the cleaned text is a number, else the next pattern
UnitFound(num, val_str, patterns, i) ==
    IF num # None THEN [num |-> num, multiplier |-> patterns[i].multiplier]
    ELSE UnitLoop(val_str, patterns, i + 1)

UnitLoop(val_str, patterns, i) ==
    IF i > Len(patterns) THEN [num |-> None, multiplier |-> One]
    ELSE IF re_search(patterns[i].pattern, val_str, TRUE)
         THEN UnitFound(parse_russian_number(Strip(re_sub(patterns[i].pattern, val_str, TRUE))),
                        val_str, patterns, i)
         ELSE UnitLoop(val_str, patterns, i + 1)

\* lines 179-181: without a unit, the text itself is parsed
PlainNumber(with_unit, val_str) ==
    IF with_unit.num # None THEN with_unit
    ELSE [num |-> parse_russian_number(val_str), multiplier |-> One]

\* lines 166-181 for a string value
ParseStr(val_str) == PlainNumber(UnitLoop(val_str, unit_patterns, 1), val_str)

\* parse_number_with_unit(value): [num, multiplier]
parse_number_with_unit(cell) ==
    IF isna(cell) THEN [num |-> None, multiplier |-> One]
    ELSE IF isnum(cell) THEN [num |-> cell.num, multiplier |-> One]
    ELSE IF cell.text \in {<<>>, <<45>>, <<8212>>} THEN [num |-> None, multiplier |-> One]
    ELSE ParseStr(Strip(Replace(cell.text, 160, <<32>>)))

-----------------------------------------------------------------------------
(* Inputs of the aggregator: the texts of the cells and the rows           *)

\* 'Итого активов'
ItogoAktivov == <<1048, 1090, 1086, 1075, 1086, 32, 1072, 1082, 1090, 1080, 1074, 1086, 1074>>
\* 'ROE (%)'
RoePercent == <<82, 79, 69, 32, 40, 37, 41>>
\* 'Рентабельность чистых активов'
RentChistyhAktivov ==
    <<1056, 1077, 1085, 1090, 1072, 1073, 1077, 1083, 1100, 1085, 1086, 1089, 1090, 1100, 32,
      1095, 1080, 1089, 1090, 1099, 1093, 32, 1072, 1082, 1090, 1080, 1074, 1086, 1074>>
\* 'Прочее'
Prochee == <<1055, 1088, 1086, 1095, 1077, 1077>>
\* '1 234,5 МЛРД РУБ'
V_1234_5_MlrdRub ==
    <<49, 32, 50, 51, 52, 44, 53, 32, 1052, 1051, 1056, 1044, 32, 1056, 1059, 1041>>
\* '98,1 млрд'
V_98_1_mlrd == <<57, 56, 44, 49, 32, 1084, 1083, 1088, 1076>>
\* '120'
V_120 == <<49, 50, 48>>
\* '15,5'
V_15_5 == <<49, 53, 44, 53>>
\* 'млн руб'
MlnRub == <<1084, 1083, 1085, 32, 1088, 1091, 1073>>
\* 'Таблица #1'
TablitsaN1 == <<1058, 1072, 1073, 1083, 1080, 1094, 1072, 32, 35, 49>>

LabelTexts == {ItogoAktivov, RoePercent, RentChistyhAktivov}
ValueTexts == {V_1234_5_MlrdRub, V_98_1_mlrd, V_120, V_15_5}

\* the rows the tables are built from: a label and a value; rows without a
\* label, a value or an indicator; rows of three cells with a unit or a second value
RowMenu ==
    {<<Str(l), Str(v)>> : l \in LabelTexts, v \in ValueTexts}
        \cup {<<Str(Prochee), Str(V_120)>>, <<NaN, NaN>>, <<Str(TablitsaN1), NaN>>,
              <<NaN, Str(MlnRub)>>, <<Str(ItogoAktivov), Str(MlnRub)>>}
        \cup {<<Str(ItogoAktivov), Str(V_15_5), Str(MlnRub)>>,
              <<Str(RoePercent), Str(V_120), Str(MlnRub)>>,
              <<Str(RoePercent), Str(V_15_5), Str(V_120)>>,
              <<Str(ItogoAktivov), NaN, Str(V_120)>>}

\* 'Операционная прибыль'
OperatsionnayaPribyl ==
    <<1054, 1087, 1077, 1088, 1072, 1094, 1080, 1086, 1085, 1085, 1072, 1103, 32,
      1087, 1088, 1080, 1073, 1099, 1083, 1100>>
\* 'Доля рынка'
DolyaRynka == <<1044, 1086, 1083, 1103, 32, 1088, 1099, 1085, 1082, 1072>>
\* '0,5'
V_0_5 == <<48, 44, 53>>
\* '1,0'
V_1_0 == <<49, 44, 48>>
\* '-5'
V_minus_5 == <<45, 53>>
\* '2e12'
V_2e12 == <<50, 101, 49, 50>>
\* '150'
V_150 == <<49, 53, 48>>

AmountLabels == {ItogoAktivov, OperatsionnayaPribyl}
AmountTexts == {V_0_5, V_1_0, V_minus_5, V_120, V_2e12, V_98_1_mlrd}

\* rows of absolute amounts: an indicator of the assumed-billions list and one
\* outside it, each with a number up to 1, a negative one, one above 1, one of
\* 1e12 or more and one with a unit; a row with its unit in the next cell; rows
\* of two value cells, both kept or the second discarded
AmountRowMenu ==
    {<<Str(l), Str(v)>> : l \in AmountLabels, v \in AmountTexts}
        \cup {<<Str(ItogoAktivov), Str(V_15_5), Str(MlnRub)>>,
              <<Str(OperatsionnayaPribyl), Str(V_15_5), Str(MlnRub)>>,
              <<Str(ItogoAktivov), Str(V_120), Str(V_0_5)>>,
              <<Str(RoePercent), Str(V_15_5), Str(V_120)>>}

\* 'тыс руб'
TysRub == <<1090, 1099, 1089, 32, 1088, 1091, 1073>>

\* n cells that are NaN
Blank(n) == [i \in 1..n |-> NaN]

\* rows for the units of the columns: a unit alone in column 1, a unit in column
\* 2 beside a value, a unit inside the value cell, a header row with a unit text,
\* and rows of 11 columns with a unit or a value in column 10
UnitRowMenu ==
    {<<Str(ItogoAktivov), Str(V_120)>>, <<NaN, Str(MlnRub)>>,
     <<Str(ItogoAktivov), Str(V_98_1_mlrd)>>, <<Str(TablitsaN1), Str(MlnRub)>>,
     <<NaN, Str(MlnRub), NaN>>, <<Str(ItogoAktivov), Str(V_15_5), Str(MlnRub)>>,
     <<Str(ItogoAktivov), Str(V_15_5), Str(TysRub)>>,
     <<Str(ItogoAktivov), Str(V_120), Str(V_0_5)>>,
     <<Str(ItogoAktivov), Str(V_120)>> \o Blank(8) \o <<Str(MlnRub)>>,
     <<Str(ItogoAktivov)>> \o Blank(9) \o <<Str(V_15_5)>>}

\* 'Чистая прибыль', 'Депозиты', 'Кредитный портфель'
ChistayaPribyl == <<1063, 1080, 1089, 1090, 1072, 1103, 32, 1087, 1088, 1080, 1073, 1099, 1083, 1100>>
Depozity == <<1044, 1077, 1087, 1086, 1079, 1080, 1090, 1099>>
KreditnyPortfel == <<1050, 1088, 1077, 1076, 1080, 1090, 1085, 1099, 1081, 32, 1087, 1086, 1088, 1090, 1092, 1077, 1083, 1100>>

\* rows of the amounts the calculator reads
PipelineLabels == {ItogoAktivov, ChistayaPribyl, Depozity, KreditnyPortfel}
PipelineTexts == {V_120, V_minus_5, V_98_1_mlrd}
PipelineRowMenu == {<<Str(label), Str(text)>> : label \in PipelineLabels, text \in PipelineTexts}

\* the rows of the tables given whole: the amounts, a percentage below and
\* above 100, a share of the market below and above 100, and an amount with
\* its unit in upper case
TableRowMenu ==
    AmountRowMenu
        \cup {<<Str(RoePercent), Str(V_15_5)>>, <<Str(RoePercent), Str(V_120)>>,
              <<Str(DolyaRynka), Str(V_15_5)>>, <<Str(DolyaRynka), Str(V_150)>>,
              <<Str(ItogoAktivov), Str(V_1234_5_MlrdRub)>>}

\* every row some table is built from, and every cell of these rows
KnownRows == RowMenu \cup TableRowMenu \cup UnitRowMenu \cup PipelineRowMenu
\* and the cells that hold a key of the result dictionary
KeyCells == {Str(KeyText[k]) : k \in DOMAIN KeyText}
CellMenu == UNION {{row[i] : i \in 1..Len(row)} : row \in KnownRows} \cup KeyCells

-----------------------------------------------------------------------------
(* Table walker (data_aggregator.py 224-357). A row is a sequence of cells; *)
(* column index col_idx (from 0, as in the source) is row[col_idx + 1].    *)

\* re.search over the unit patterns in order: the multiplier of the first that
\* matches, None when none does
RECURSIVE FirstUnit(_, _, _, _)
FirstUnit(text, patterns, i, ic) ==
    IF i > Len(patterns) THEN None
    ELSE IF re_search(patterns[i].pattern, text, ic) THEN patterns[i].multiplier
    ELSE FirstUnit(text, patterns, i + 1, ic)

\* the unit found in the text of a cell, for every cell of the menu (computed once)
UnitInCell ==
    [cell \in CellMenu |->
        IF isstr(cell) THEN FirstUnit(cell.text, unit_patterns, 1, TRUE) ELSE None]

\* a cell that is not a string holds no unit
CellUnit(cell) == IF isnum(cell) THEN None ELSE UnitInCell[cell]

UnitOfCell(row, col_idx) ==
    IF col_idx >= 0 /\ col_idx < Len(row) THEN CellUnit(row[col_idx + 1]) ELSE None

\* the first of the three multipliers that is one, 1.0 otherwise
FirstFound(here, next, prev) ==
    IF here # None THEN here
    ELSE IF next # None THEN next
    ELSE IF prev # None THEN prev
    ELSE One

\* detect_units_in_context(row, col_idx): the cell itself, then the next cell,
\* then the previous one
detect_units_in_context(row, col_idx) ==
    FirstFound(UnitOfCell(row, col_idx), UnitOfCell(row, col_idx + 1),
               UnitOfCell(row, col_idx - 1))

\* 'таблица #'
TableMarker == <<1090, 1072, 1073, 1083, 1080, 1094, 1072, 32, 35>>

\* is_table_header(row)
is_table_header(row) ==
    IF isna(row[1]) THEN FALSE
    ELSE re_search(Lit(TableMarker), StrLower(Strip(CellStr(row[1]))), FALSE)

AllNaN(row) == \A i \in 1..Len(row) : isna(row[i])

\* pattern.upper(): the pattern text in upper case (its backslashes, quantifiers
\* and dots are unchanged, its letters are not: \s becomes \S)
PatternUpper(pat) ==
    [i \in 1..Len(pat) |->
        [pat[i] EXCEPT !.c = Upper(pat[i].c),
                       !.k = IF pat[i].k = "space" THEN "nonspace" ELSE pat[i].k]]

UpperUnitPatterns ==
    [i \in 1..Len(unit_patterns) |->
        [pattern |-> PatternUpper(unit_patterns[i].pattern),
         multiplier |-> unit_patterns[i].multiplier]]

\* lines 276-282 for every cell of the menu (computed once): the multiplier of the
\* first upper-cased pattern found in cell.upper().strip()
UnitInUpperCell ==
    [cell \in CellMenu |->
        IF isstr(cell)
        THEN FirstUnit(Strip(StrUpper(cell.text)), UpperUnitPatterns, 1, FALSE)
        ELSE None]

\* line 275: a cell that is not a string is passed over
UpperCellUnit(cell) == IF isnum(cell) THEN None ELSE UnitInUpperCell[cell]

\* lines 280-281: current_units[col_idx] = multiplier, when a pattern was found
SetUnit(units, col_idx, found) ==
    IF found = None THEN units
    ELSE [c \in DOMAIN units \cup {col_idx} |-> IF c = col_idx THEN found ELSE units[c]]

\* a variant of ScanUnits that scans every column of the row
RECURSIVE ScanUnitsAllColumns(_, _, _)
ScanUnitsAllColumns(units, row, col_idx) ==
    IF col_idx >= Len(row) THEN units
    ELSE ScanUnitsAllColumns(SetUnit(units, col_idx, UpperCellUnit(row[col_idx + 1])),
                             row, col_idx + 1)

\* lines 273-282: the units found in the first 10 columns of the row
RECURSIVE ScanUnits(_, _, _)
ScanUnits(units, row, col_idx) ==
    IF col_idx >= Min(ScanColumns, Len(row)) THEN units
    ELSE ScanUnits(SetUnit(units, col_idx, UpperCellUnit(row[col_idx + 1])), row, col_idx + 1)

\* lines 285-286: the cells that are not NaN and hold more than one character,
\* as pairs <<col_idx, cell>>
KeepCell(cell_str) == cell_str # <<>> /\ Len(cell_str) > 1

RECURSIVE NonEmptyFrom(_, _)
NonEmptyFrom(row, col_idx) ==
    IF col_idx >= Len(row) THEN <<>>
    ELSE (IF ~isna(row[col_idx + 1]) /\ KeepCell(Strip(CellStr(row[col_idx + 1])))
          THEN <<(<<col_idx, row[col_idx + 1]>>)>> ELSE <<>>)
             \o NonEmptyFrom(row, col_idx + 1)

non_empty(row) == NonEmptyFrom(row, 0)

\* re.match(r'^[\d\s\.,%\-]+$', cell_str)
NumericLooking(cell_str) ==
    /\ cell_str # <<>>
    /\ \A i \in 1..Len(cell_str) :
           IsDigit(cell_str[i]) \/ IsSpace(cell_str[i]) \/ cell_str[i] \in {46, 44, 37, 45}

\* lines 292-299: the leading cells, of the first three, before the first one that
\* looks numeric or is shorter than 3; value_start_idx is that cell's index in
\* non_empty, and stays 0 when the loop never breaks
RECURSIVE IndicatorLoop(_, _, _)
\* lines 295-299 for one cell
IndicatorCell(ne, i, parts, cell_str) ==
    IF NumericLooking(cell_str) \/ Len(cell_str) < ShortCell
    THEN [indicator_parts |-> parts, value_start_idx |-> i]
    ELSE IndicatorLoop(ne, i + 1, Append(parts, cell_str))

IndicatorLoop(ne, i, parts) ==
    IF i >= Min(LabelCells, Len(ne)) THEN [indicator_parts |-> parts, value_start_idx |-> 0]
    ELSE IndicatorCell(ne, i, parts, Strip(CellStr(ne[i + 1][2])))

AnyPatternMatches(patterns, indicator_name) ==
    \E p \in 1..Len(patterns) : re_search(patterns[p], indicator_name, TRUE)

\* a variant of match_indicator that keeps the last indicator found, as a loop
\* without the break of line 357 would
RECURSIVE MatchLoopLast(_, _)
MatchLoopLast(indicator_name, i) ==
    IF i < 1 THEN 0
    ELSE IF AnyPatternMatches(financial_patterns[i].patterns, indicator_name) THEN i
    ELSE MatchLoopLast(indicator_name, i - 1)

match_indicator_last(indicator_name) == MatchLoopLast(indicator_name, Len(financial_patterns))

\* lines 307-308 and 357: the index of the first indicator, in declaration order,
\* one of whose patterns is found in the name; 0 when there is none
RECURSIVE MatchLoop(_, _)
MatchLoop(indicator_name, i) ==
    IF i > Len(financial_patterns) THEN 0
    ELSE IF AnyPatternMatches(financial_patterns[i].patterns, indicator_name) THEN i
    ELSE MatchLoop(indicator_name, i + 1)

match_indicator(indicator_name) == MatchLoop(indicator_name, 1)

\* line 304: ' '.join(indicator_parts).lower()
IndicatorName(row) == StrLower(Join(IndicatorLoop(non_empty(row), 0, <<>>).indicator_parts))

\* the indicator of every row of the menu, and whether the row is a header
\* (computed once)
IndicatorOfRow == [row \in KnownRows |-> match_indicator(IndicatorName(row))]
HeaderRow == [row \in KnownRows |-> is_table_header(row)]

\* parse_number_with_unit on every cell of the menu (computed once)
ParsedCell == [cell \in CellMenu |-> parse_number_with_unit(cell)]

\* line 313: parse_number_with_unit(cell_value)
CellNumber(cell) == IF isnum(cell) THEN parse_number_with_unit(cell) ELSE ParsedCell[cell]

\* the keys of the result dictionary taken as labels, and the indicator of
\* each (computed once)
KeyLabels == {StrLower(KeyText[k]) : k \in DOMAIN KeyText}
IndicatorOfKeyLabel == [indicator_name \in KeyLabels |-> match_indicator(indicator_name)]

\* lines 307-308 for a row: the tables above when the row or its label is in
\* them, the search itself otherwise
IndicatorOfLabel(indicator_name) ==
    IF indicator_name \in KeyLabels THEN IndicatorOfKeyLabel[indicator_name]
    ELSE match_indicator(indicator_name)

IndicatorOf(row) ==
    IF row \in KnownRows THEN IndicatorOfRow[row] ELSE IndicatorOfLabel(IndicatorName(row))

\* line 270 for a row
IsHeader(row) == IF row \in KnownRows THEN HeaderRow[row] ELSE is_table_header(row)

\* lines 326-333
PercentageIndicators ==
    {"roa", "roe", "net_interest_margin", "cost_to_income_ratio",
     "non_performing_loan_ratio", "capital_adequacy_ratio", "churn_rate",
     "retention_rate", "digital_penetration", "mobile_penetration",
     "wallet_share", "credit_cost", "loan_loss_provision_coverage",
     "return_on_net_assets", "return_on_average_total_assets",
     "return_on_net_assets_after_deducting_non_recurring"}

\* lines 347-348
AssumedBillions ==
    {"total_assets", "loans_to_customers", "deposits_from_customers", "net_income",
     "operating_income"}

\* a variant of PercentageDiscarded with the test of the multiplier inverted
PercentageDiscardedWithUnit(num, multiplier) ==
    DecGt(num, Dec(100, 0)) /\ multiplier # One

\* lines 335-338: the guard that drops a percentage cell
PercentageDiscarded(num, multiplier) == DecGt(num, Dec(100, 0)) /\ multiplier = One

\* a variant of AssumeBillions without the test of the raw number
AssumeBillionsAnyNumber(param_name, num, multiplier, final_value) ==
    IF /\ param_name \in AssumedBillions
       /\ DecLt(final_value, Dec(1, 12))
       /\ multiplier = One
    THEN DecMul(final_value, Dec(1, 9))
    ELSE final_value

\* lines 347-352: an amount of the five listed indicators that is above 1, below
\* 1e12 and without a unit is taken to be in billions
AssumeBillions(param_name, num, multiplier, final_value) ==
    IF /\ param_name \in AssumedBillions
       /\ DecLt(final_value, Dec(1, 12))
       /\ multiplier = One
       /\ DecGt(num, One)
    THEN DecMul(final_value, Dec(1, 9))
    ELSE final_value

\* lines 341-352: an absolute amount
AbsoluteValue(param_name, num, multiplier) ==
    AssumeBillions(param_name, num, multiplier, DecMul(num, multiplier))

\* lines 326-352: the value to store for a parsed number, None when it is dropped
FinalValue(param_name, num, multiplier) ==
    IF param_name \in PercentageIndicators
    THEN (IF PercentageDiscarded(num, multiplier) THEN None ELSE num)
    ELSE AbsoluteValue(param_name, num, multiplier)

\* lines 319-323: current_units.get(col_idx, detect_units_in_context(row, col_idx))
ContextMultiplier(row, units, col_idx) ==
    IF col_idx \in DOMAIN units THEN units[col_idx]
    ELSE detect_units_in_context(row, col_idx)

\* lines 314-323
Resolved(param_name, parsed, context_multiplier) ==
    IF parsed.num = None THEN None
    ELSE FinalValue(param_name, parsed.num, DecMul(parsed.multiplier, context_multiplier))

\* lines 311-352 for one cell: the value to store, None when the cell is skipped
ResolveCell(param_name, row, units, col_idx, cell_value) ==
    Resolved(param_name, CellNumber(cell_value), ContextMultiplier(row, units, col_idx))

\* a variant of StoreValue that stores under a key of its own making
StoreValueNewKey(fd, param_name, final_value) ==
    [k \in DOMAIN fd \cup {"value"} |-> IF k = "value" THEN final_value ELSE fd[k]]

\* a variant of StoreValue that keeps a value already stored
StoreValueIfUnset(fd, param_name, final_value) ==
    IF fd[param_name] # Zero THEN fd ELSE [fd EXCEPT ![param_name] = final_value]

\* line 355: financial_data[param_name] = final_value
StoreValue(fd, param_name, final_value) == [fd EXCEPT ![param_name] = final_value]

\* a variant of StoreOrSkip that keeps the first value stored in the row
StoreOrSkipKeepFirst(acc, param_name, final_value) ==
    IF final_value = None \/ acc.hit THEN acc
    ELSE [fd |-> [acc.fd EXCEPT ![param_name] = final_value], hit |-> TRUE]

\* lines 316 and 355 on acc = [fd, hit]: the dictionary and whether a cell was stored
StoreOrSkip(acc, param_name, final_value) ==
    IF final_value = None THEN acc
    ELSE [fd |-> StoreValue(acc.fd, param_name, final_value), hit |-> TRUE]

\* lines 310-355: the cells from value_start_idx on, left to right
RECURSIVE ValueLoop(_, _, _, _, _, _)
ValueLoop(acc, param_name, row, units, ne, j) ==
    IF j >= Len(ne) THEN acc
    ELSE ValueLoop(StoreOrSkip(acc, param_name,
                               ResolveCell(param_name, row, units, ne[j + 1][1], ne[j + 1][2])),
                   param_name, row, units, ne, j + 1)

\* the outcome of a row: the dictionary, the units, and the keys stored under
RowOutcome(out, units, param_name) ==
    [fd |-> out.fd, units |-> units, stored |-> IF out.hit THEN {param_name} ELSE {}]

\* lines 307-357: the matched indicator's values are extracted
ExtractValues(fd, units, row, ne, value_start_idx, param_name) ==
    RowOutcome(ValueLoop([fd |-> fd, hit |-> FALSE], param_name, row, units, ne,
                         value_start_idx),
               units, param_name)

\* lines 301-308: no indicator part, or no indicator matching the name: next row
MatchRow(fd, units, row, ne, split, idx) ==
    IF split.indicator_parts = <<>> \/ idx = 0
    THEN [fd |-> fd, units |-> units, stored |-> {}]
    ELSE ExtractValues(fd, units, row, ne, split.value_start_idx,
                       financial_patterns[idx].name)

\* lines 284-357, after the scan for units
ScannedRow(fd, units, row, ne) ==
    IF Len(ne) < MinCells THEN [fd |-> fd, units |-> units, stored |-> {}]
    ELSE MatchRow(fd, units, row, ne, IndicatorLoop(ne, 0, <<>>), IndicatorOf(row))

\* lines 267-357, the body of the loop over rows: [fd, units, stored], stored
\* being the keys a value was stored under
RowStep(fd, units, row) ==
    IF IsHeader(row) \/ AllNaN(row)
    THEN [fd |-> fd, units |-> units, stored |-> {}]
    ELSE ScannedRow(fd, ScanUnits(units, row, 0), row, non_empty(row))

-----------------------------------------------------------------------------
(* Python floats (IEEE 754 binary64, round to nearest, ties to even).       *)
(* A natural number is the sequence of its base-16384 digits, least         *)
(* significant first, the empty sequence for 0.  A float is 0.0 or          *)
(* [neg, m, exp] of value (-1)^neg * (m / 2^52) * 2^exp with                 *)
(* 2^52 <= m < 2^53.  The amounts of the records are far from the ends of   *)
(* the exponent range: overflow and subnormal numbers do not occur.         *)

Limb(a, i) == IF i <= Len(a) THEN a[i] ELSE 0

RECURSIVE BigTrim(_)
BigTrim(a) ==
    IF a # <<>> /\ a[Len(a)] = 0 THEN BigTrim(SubSeq(a, 1, Len(a) - 1)) ELSE a

RECURSIVE Big(_)
Big(n) == IF n = 0 THEN <<>> ELSE <<n % 16384>> \o Big(n \div 16384)

RECURSIVE BigAddFrom(_, _, _, _)
BigAddDigit(a, b, i, s) == <<s % 16384>> \o BigAddFrom(a, b, i + 1, s \div 16384)
BigAddFrom(a, b, i, carry) ==
    IF i > Len(a) /\ i > Len(b) THEN (IF carry = 0 THEN <<>> ELSE <<carry>>)
    ELSE BigAddDigit(a, b, i, Limb(a, i) + Limb(b, i) + carry)
BigAdd(a, b) == BigAddFrom(a, b, 1, 0)

\* a - b for a >= b
RECURSIVE BigSubFrom(_, _, _, _)
BigSubDigit(a, b, i, d) ==
    IF d < 0 THEN <<d + 16384>> \o BigSubFrom(a, b, i + 1, 1)
    ELSE <<d>> \o BigSubFrom(a, b, i + 1, 0)
BigSubFrom(a, b, i, borrow) ==
    IF i > Len(a) THEN <<>> ELSE BigSubDigit(a, b, i, a[i] - Limb(b, i) - borrow)
BigSub(a, b) == BigTrim(BigSubFrom(a, b, 1, 0))

\* -1, 0, 1 as a < b, a = b, a > b
RECURSIVE BigCmpFrom(_, _, _)
BigCmpFrom(a, b, i) ==
    IF i = 0 THEN 0
    ELSE IF a[i] > b[i] THEN 1
    ELSE IF a[i] < b[i] THEN -1
    ELSE BigCmpFrom(a, b, i - 1)
BigCmp(a, b) ==
    IF Len(a) > Len(b) THEN 1
    ELSE IF Len(a) < Len(b) THEN -1
    ELSE BigCmpFrom(a, b, Len(a))

\* a * d for one digit d
RECURSIVE BigMulSmallFrom(_, _, _, _)
BigMulSmallDigit(a, d, i, p) == <<p % 16384>> \o BigMulSmallFrom(a, d, i + 1, p \div 16384)
BigMulSmallFrom(a, d, i, carry) ==
    IF i > Len(a) THEN (IF carry = 0 THEN <<>> ELSE <<carry>>)
    ELSE BigMulSmallDigit(a, d, i, a[i] * d + carry)
BigMulSmall(a, d) == IF d = 0 THEN <<>> ELSE BigMulSmallFrom(a, d, 1, 0)

\* a * 16384^k
BigShiftDigits(a, k) == IF a = <<>> THEN <<>> ELSE [i \in 1..k |-> 0] \o a

RECURSIVE BigMulFrom(_, _, _)
BigMulFrom(a, b, i) ==
    IF i > Len(b) THEN <<>>
    ELSE BigAdd(BigMulSmall(a, b[i]), BigShiftDigits(BigMulFrom(a, b, i + 1), 1))
BigMul(a, b) == BigMulFrom(a, b, 1)

\* a * 2^k
BigShiftLeft(a, k) == BigShiftDigits(BigMulSmall(a, 2 ^ (k % 14)), k \div 14)

\* the quotient and the remainder of a by one digit d > 0: the digits of a from
\* digit i down, after quotient q and remainder r
RECURSIVE BigDivSmallFrom(_, _, _, _, _)
BigDivSmallDigit(a, d, i, q, cur) ==
    BigDivSmallFrom(a, d, i - 1, <<cur \div d>> \o q, cur % d)
BigDivSmallFrom(a, d, i, q, r) ==
    IF i = 0 THEN [q |-> BigTrim(q), r |-> r]
    ELSE BigDivSmallDigit(a, d, i, q, r * 16384 + a[i])
BigDivSmall(a, d) == BigDivSmallFrom(a, d, Len(a), <<>>, 0)

\* the number of bits of a
BitLength(d) == CHOOSE k \in 0..14 : (d = 0 /\ k = 0) \/ (d > 0 /\ 2 ^ k > d /\ 2 ^ k <= 2 * d)
BigBitLength(a) == IF a = <<>> THEN 0 ELSE 14 * (Len(a) - 1) + BitLength(a[Len(a)])

\* the digit floor(r / d) for r < 16384 * d: an estimate from the leading digits,
\* never too small, lowered until it fits
RECURSIVE QuotientDigitFrom(_, _, _)
QuotientDigitFrom(r, d, estimate) ==
    IF BigCmp(BigMulSmall(d, estimate), r) > 0 THEN QuotientDigitFrom(r, d, estimate - 1)
    ELSE estimate
QuotientDigit(r, d) ==
    IF BigCmp(r, d) < 0 THEN 0
    ELSE QuotientDigitFrom(r, d,
             Min(16383, (Limb(r, Len(d) + 1) * 16384 + Limb(r, Len(d))) \div d[Len(d)]))

\* long division: the digits of a from digit i down, after quotient q and remainder r
RECURSIVE BigDivModFrom(_, _, _, _, _)
BigDivModDigit(a, d, i, q, r, digit) ==
    BigDivModFrom(a, d, i - 1, <<digit>> \o q, BigSub(r, BigMulSmall(d, digit)))
BigDivModStep(a, d, i, q, r) == BigDivModDigit(a, d, i, q, r, QuotientDigit(r, d))
BigDivModFrom(a, d, i, q, r) ==
    IF i = 0 THEN [q |-> BigTrim(q), r |-> r]
    ELSE BigDivModStep(a, d, i, q, BigTrim(<<a[i]>> \o r))
BigDivMod(a, d) == BigDivModFrom(a, d, Len(a), <<>>, <<>>)

Pow2_52 == BigShiftLeft(<<1>>, 52)
Pow2_53 == BigShiftLeft(<<1>>, 53)
Pow2_54 == BigShiftLeft(<<1>>, 54)
Pow2_104 == BigShiftLeft(<<1>>, 104)

FloatZero == [neg |-> FALSE, m |-> <<>>, exp |-> 0]

\* the mantissa came out as 2^53: the next binade
RoundCarry(neg, m, exp) ==
    IF m = Pow2_53 THEN [neg |-> neg, m |-> Pow2_52, exp |-> exp + 1]
    ELSE [neg |-> neg, m |-> m, exp |-> exp]

\* round to nearest, ties to even: m and the bits cut off, cut of unit / 2^k and
\* sticky for what lies below them
RoundNearestEven(neg, m, cut, k, sticky, exp) ==
    IF 2 * cut > 2 ^ k \/ (2 * cut = 2 ^ k /\ (sticky \/ m[1] % 2 = 1))
    THEN RoundCarry(neg, BigAdd(m, <<1>>), exp)
    ELSE [neg |-> neg, m |-> m, exp |-> exp]

RoundCut(neg, shifted, k, sticky, exp) ==
    RoundNearestEven(neg, shifted.q, shifted.r, k, sticky, exp)

\* a quotient of 54 or 55 bits and its remainder, cut to 53 bits
RoundQuotient(neg, qr, exp) ==
    IF BigCmp(qr.q, Pow2_54) >= 0
    THEN RoundCut(neg, BigDivSmall(qr.q, 4), 2, qr.r # <<>>, exp + 2)
    ELSE RoundCut(neg, BigDivSmall(qr.q, 2), 1, qr.r # <<>>, exp + 1)

\* sq makes the leading digit of the divisor full, sp the dividend 54 bits longer
RoundScaled(neg, p, q, exp, sp, sq) ==
    RoundQuotient(neg, BigDivMod(BigShiftLeft(p, sp), BigShiftLeft(q, sq)),
                  exp - sp + sq + 52)

RoundDivisorScaled(neg, p, q, exp, sq) ==
    RoundScaled(neg, p, q, exp, BigBitLength(q) + sq + 54 - BigBitLength(p), sq)

\* the float nearest to (-1)^neg * (p / q) * 2^exp for naturals p, q > 0, p of at
\* most 54 bits more than q
RoundToFloat(neg, p, q, exp) ==
    RoundDivisorScaled(neg, p, q, exp, (14 - (BigBitLength(q) % 14)) % 14)

\* p / 2^c for c > 0: the quotient and the bits cut off, as the digits dropped
\* whole (low) and the remainder of the rest by 2^b, for c = 14 * a + b, 1 <= b <= 14
CutDigits(p, a, b) ==
    [high |-> BigDivSmall(SubSeq(p, a + 1, Len(p)), 2 ^ b),
     sticky |-> \E i \in 1..a : p[i] # 0,
     b |-> b]

RoundCutDigits(neg, parts, exp) ==
    RoundNearestEven(neg, parts.high.q, parts.high.r, parts.b, parts.sticky, exp)

\* the float nearest to (-1)^neg * p * 2^(exp - 52) for a natural p > 0 of n bits
RoundBits(neg, p, n, exp) ==
    IF n <= 53 THEN [neg |-> neg, m |-> BigShiftLeft(p, 53 - n), exp |-> exp + n - 53]
    ELSE RoundCutDigits(neg,
                        CutDigits(p, (n - 54) \div 14, (n - 53) - 14 * ((n - 54) \div 14)),
                        exp + n - 53)

\* the float nearest to (-1)^neg * (p / 2^k) * 2^exp for a natural p > 0
RoundShift(neg, p, k, exp) == RoundBits(neg, p, BigBitLength(p), exp + 52 - k)

\* the float a literal n/d (0.03 is 3/100) or an integer n (d = 1) denotes
Float(n, d) ==
    IF n = 0 THEN FloatZero ELSE RoundToFloat(n < 0, Big(Abs(n)), Big(d), 0)

\* 10^n as a natural
RECURSIVE BigPow10(_)
BigPow10(n) == IF n <= 0 THEN <<1>> ELSE BigMulSmall(BigPow10(n - 1), 10)

\* the float nearest to the decimal x = m * 10^e: the value the dictionary of the
\* aggregator holds under a key, as the calculator reads it
FloatOfDec(x) ==
    IF x.m = 0 THEN FloatZero
    ELSE IF x.e >= 0
    THEN RoundShift(x.m < 0, BigMul(Big(Abs(x.m)), BigPow10(x.e)), 0, 0)
    ELSE RoundToFloat(x.m < 0, Big(Abs(x.m)), BigPow10(0 - x.e), 0)

\* the exception a float division by zero raises
ZeroDivisionError == [raised |-> "ZeroDivisionError"]

IsZero(x) == x.m = <<>>

\* x * y
Times(x, y) ==
    IF IsZero(x) \/ IsZero(y) THEN FloatZero
    ELSE RoundShift(x.neg # y.neg, BigMul(x.m, y.m), 104, x.exp + y.exp)

\* x / y
Divide(x, y) ==
    IF IsZero(y) THEN ZeroDivisionError
    ELSE IF IsZero(x) THEN FloatZero
    ELSE RoundToFloat(x.neg # y.neg, x.m, y.m, x.exp - y.exp)

FloatSign(x) == IF IsZero(x) THEN 0 ELSE IF x.neg THEN -1 ELSE 1

\* |x| against |y| for x, y # 0
FloatMagCmp(x, y) ==
    IF x.exp > y.exp THEN 1
    ELSE IF x.exp < y.exp THEN -1
    ELSE BigCmp(x.m, y.m)

FloatCmp(x, y) ==
    IF FloatSign(x) # FloatSign(y) THEN (IF FloatSign(x) > FloatSign(y) THEN 1 ELSE -1)
    ELSE IF FloatSign(x) = 0 THEN 0
    ELSE FloatSign(x) * FloatMagCmp(x, y)

\* x >= y, x <= y, x > y
FloatGe(x, y) == FloatCmp(x, y) >= 0
FloatLe(x, y) == FloatCmp(x, y) <= 0
FloatGt(x, y) == FloatCmp(x, y) > 0


\* float('nan')
FloatNaN == [nan |-> TRUE]

\* the mantissa of x as a multiple of 2^(e - 52), for e <= x.exp
Aligned(x, e) == BigShiftLeft(x.m, x.exp - e)

\* x + y for x, y # 0, both written as multiples of 2^(e - 52)
PlusAligned(x, y, e) ==
    IF x.neg = y.neg
    THEN RoundShift(x.neg, BigAdd(Aligned(x, e), Aligned(y, e)), 52, e)
    ELSE IF FloatMagCmp(x, y) = 0 THEN FloatZero
    ELSE IF FloatMagCmp(x, y) > 0
    THEN RoundShift(x.neg, BigSub(Aligned(x, e), Aligned(y, e)), 52, e)
    ELSE RoundShift(y.neg, BigSub(Aligned(y, e), Aligned(x, e)), 52, e)

\* x + y
Plus(x, y) ==
    IF IsZero(x) THEN y
    ELSE IF IsZero(y) THEN x
    ELSE PlusAligned(x, y, Min(x.exp, y.exp))

Negate(x) == IF IsZero(x) THEN x ELSE [x EXCEPT !.neg = ~x.neg]

\* x - y
Minus(x, y) == Plus(x, Negate(y))
-----------------------------------------------------------------------------
(* The records the calculator is given                                      *)

CalcRecords ==
    [total_assets : {0, 200},
     total_liabilities : {0, 28, 42},
     equity : {0, 16, 20, 24},
     net_income : {-1, 0, 2, 3, 4},
     cash_and_equivalents : {0, 21, 35},
     loans_to_customers : {-50, 0, 9},
     net_interest_income : {0, 4, 8},
     deposits_from_customers : {0, 200}]

ZeroRecord ==
    [total_assets |-> 0, total_liabilities |-> 0, equity |-> 0, net_income |-> 0,
     cash_and_equivalents |-> 0, loans_to_customers |-> 0, net_interest_income |-> 0,
     deposits_from_customers |-> 0]


-----------------------------------------------------------------------------
(* Ratio calculator (analytics/calculator.py, thresholds of config.py)      *)

\* config.py RATIOS_THRESHOLDS: (min, ideal); for problem_loans_ratio (max, ideal)
RATIOS_THRESHOLDS ==
    [capital_adequacy |-> <<Float(8, 100), Float(12, 100)>>,
     instant_liquidity |-> <<Float(15, 100), Float(25, 100)>>,
     current_liquidity |-> <<Float(1, 1), Float(3, 2)>>,
     roe |-> <<Float(10, 100), Float(15, 100)>>,
     roa |-> <<Float(1, 100), Float(2, 100)>>,
     nim |-> <<Float(2, 100), Float(4, 100)>>,
     problem_loans_ratio |-> <<Float(5, 100), Float(2, 100)>>]

\* the amounts of the records, as floats
Amounts ==
    UNION {{record[field] : record \in CalcRecords} : field \in DOMAIN ZeroRecord}
FloatOfAmount == [a \in Amounts |-> Float(a, 1)]
Amount(a) == FloatOfAmount[a]

\* the products and the quotients the calculator forms of them
\* the literals 0.7, 0.5 and 0.03
F_0_7 == Float(7, 10)
F_0_5 == Float(5, 10)
F_0_03 == Float(3, 100)
Factors == {F_0_7, F_0_5, F_0_03}
Product == [x \in {Amount(a) : a \in Amounts}, y \in Factors |-> Times(x, y)]
Operands ==
    {Amount(a) : a \in Amounts}
        \cup {Product[Amount(a), y] : a \in Amounts, y \in Factors}
Quotient == [x \in Operands, y \in Operands |-> Divide(x, y)]

\* x * y and x / y: from the tables above for the operands of the records, computed
\* for any other float
ProductOf(x, y) ==
    IF x \in {Amount(a) : a \in Amounts} /\ y \in Factors THEN Product[x, y] ELSE Times(x, y)
QuotientOf(x, y) ==
    IF x \in Operands /\ y \in Operands THEN Quotient[x, y] ELSE Divide(x, y)

\* a result tuple (ratio_value, interpretation); of an interpretation that names
\* a tier the tier word is kept, the formatted figures after it are not
RatioResult(ratio_value, interpretation) ==
    [value |-> ratio_value, interpretation |-> interpretation]

\* the division raised: the exception leaves the method
Raised(ratio) == ratio = ZeroDivisionError

\* BankingRatiosCalculator.__init__: the fields read from the record, and the
\* derived ones
BankingRatiosCalculator(financial_data_in) ==
    [total_assets |-> Amount(financial_data_in.total_assets),
     total_liabilities |-> Amount(financial_data_in.total_liabilities),
     equity |-> Amount(financial_data_in.equity),
     net_income |-> Amount(financial_data_in.net_income),
     cash_and_equivalents |-> Amount(financial_data_in.cash_and_equivalents),
     loans_to_customers |-> Amount(financial_data_in.loans_to_customers),
     net_interest_income |-> Amount(financial_data_in.net_interest_income),
     deposits_from_customers |-> Amount(financial_data_in.deposits_from_customers),
     average_assets |-> Amount(financial_data_in.total_assets),
     liquid_assets |-> Amount(financial_data_in.cash_and_equivalents),
     demand_deposits |-> Product[Amount(financial_data_in.deposits_from_customers), F_0_7],
     short_term_liabilities |-> Product[Amount(financial_data_in.total_liabilities), F_0_5]]

\* BankingRatiosCalculator.__init__ on the dictionary the table path returns, its
\* values exact decimals
CalculatorOfAggregated(financial_data_in) ==
    [total_assets |-> FloatOfDec(financial_data_in.total_assets),
     total_liabilities |-> FloatOfDec(financial_data_in.total_liabilities),
     equity |-> FloatOfDec(financial_data_in.equity),
     net_income |-> FloatOfDec(financial_data_in.net_income),
     cash_and_equivalents |-> FloatOfDec(financial_data_in.cash_and_equivalents),
     loans_to_customers |-> FloatOfDec(financial_data_in.loans_to_customers),
     net_interest_income |-> FloatOfDec(financial_data_in.net_interest_income),
     deposits_from_customers |-> FloatOfDec(financial_data_in.deposits_from_customers),
     average_assets |-> FloatOfDec(financial_data_in.total_assets),
     liquid_assets |-> FloatOfDec(financial_data_in.cash_and_equivalents),
     demand_deposits |-> ProductOf(FloatOfDec(financial_data_in.deposits_from_customers), F_0_7),
     short_term_liabilities |-> ProductOf(FloatOfDec(financial_data_in.total_liabilities), F_0_5)]

\* a variant of CapitalAdequacyTier whose top tier starts above the ideal
CapitalAdequacyTierStrict(ratio, min_thr, max_thr) ==
    IF Raised(ratio) THEN ratio
    ELSE IF FloatGt(ratio, max_thr) THEN RatioResult(ratio, "Excellent")
    ELSE IF FloatGe(ratio, min_thr) THEN RatioResult(ratio, "Adequate")
    ELSE RatioResult(ratio, "Deficient")

\* lines 98-106
CapitalAdequacyTier(ratio, min_thr, max_thr) ==
    IF Raised(ratio) THEN ratio
    ELSE IF FloatGe(ratio, max_thr) THEN RatioResult(ratio, "Excellent")
    ELSE IF FloatGe(ratio, min_thr) THEN RatioResult(ratio, "Adequate")
    ELSE RatioResult(ratio, "Deficient")

calculate_capital_adequacy(self) ==
    IF IsZero(self.total_assets)
    THEN RatioResult(Float(0, 1), "Cannot calculate: Total assets is zero")
    ELSE CapitalAdequacyTier(QuotientOf(self.equity, self.total_assets),
                             RATIOS_THRESHOLDS.capital_adequacy[1],
                             RATIOS_THRESHOLDS.capital_adequacy[2])

\* lines 122-130
InstantLiquidityTier(ratio, min_thr, max_thr) ==
    IF Raised(ratio) THEN ratio
    ELSE IF FloatGe(ratio, max_thr) THEN RatioResult(ratio, "Strong")
    ELSE IF FloatGe(ratio, min_thr) THEN RatioResult(ratio, "Adequate")
    ELSE RatioResult(ratio, "Concerning")

calculate_instant_liquidity(self) ==
    IF IsZero(self.demand_deposits)
    THEN RatioResult(Float(0, 1), "Cannot calculate: Demand deposits is zero")
    ELSE InstantLiquidityTier(QuotientOf(self.liquid_assets, self.demand_deposits),
                              RATIOS_THRESHOLDS.instant_liquidity[1],
                              RATIOS_THRESHOLDS.instant_liquidity[2])

\* lines 147-155
CurrentLiquidityTier(ratio, min_thr, max_thr) ==
    IF Raised(ratio) THEN ratio
    ELSE IF FloatGe(ratio, max_thr) THEN RatioResult(ratio, "Strong")
    ELSE IF FloatGe(ratio, min_thr) THEN RatioResult(ratio, "Adequate")
    ELSE RatioResult(ratio, "Concerning")

calculate_current_liquidity(self) ==
    IF IsZero(self.short_term_liabilities)
    THEN RatioResult(Float(0, 1), "Cannot calculate: Short-term liabilities is zero")
    ELSE CurrentLiquidityTier(QuotientOf(self.liquid_assets, self.short_term_liabilities),
                              RATIOS_THRESHOLDS.current_liquidity[1],
                              RATIOS_THRESHOLDS.current_liquidity[2])

\* lines 171-179
RoeTier(ratio, min_thr, max_thr) ==
    IF Raised(ratio) THEN ratio
    ELSE IF FloatGe(ratio, max_thr) THEN RatioResult(ratio, "Excellent")
    ELSE IF FloatGe(ratio, min_thr) THEN RatioResult(ratio, "Good")
    ELSE RatioResult(ratio, "Low")

\* a variant of calculate_roe without the test of the denominator
calculate_roe_unguarded(self) ==
    RoeTier(QuotientOf(self.net_income, self.equity),
            RATIOS_THRESHOLDS.roe[1], RATIOS_THRESHOLDS.roe[2])

calculate_roe(self) ==
    IF IsZero(self.equity)
    THEN RatioResult(Float(0, 1), "Cannot calculate: Equity is zero")
    ELSE RoeTier(QuotientOf(self.net_income, self.equity),
                 RATIOS_THRESHOLDS.roe[1], RATIOS_THRESHOLDS.roe[2])

\* lines 195-203
RoaTier(ratio, min_thr, max_thr) ==
    IF Raised(ratio) THEN ratio
    ELSE IF FloatGe(ratio, max_thr) THEN RatioResult(ratio, "Excellent")
    ELSE IF FloatGe(ratio, min_thr) THEN RatioResult(ratio, "Good")
    ELSE RatioResult(ratio, "Low")

calculate_roa(self) ==
    IF IsZero(self.total_assets)
    THEN RatioResult(Float(0, 1), "Cannot calculate: Total assets is zero")
    ELSE RoaTier(QuotientOf(self.net_income, self.total_assets),
                 RATIOS_THRESHOLDS.roa[1], RATIOS_THRESHOLDS.roa[2])

\* lines 220-228
NimTier(ratio, min_thr, max_thr) ==
    IF Raised(ratio) THEN ratio
    ELSE IF FloatGe(ratio, max_thr) THEN RatioResult(ratio, "Excellent")
    ELSE IF FloatGe(ratio, min_thr) THEN RatioResult(ratio, "Good")
    ELSE RatioResult(ratio, "Low")

calculate_nim(self) ==
    IF IsZero(self.average_assets)
    THEN RatioResult(Float(0, 1), "Cannot calculate: Average assets is zero")
    ELSE NimTier(QuotientOf(self.net_interest_income, self.average_assets),
                 RATIOS_THRESHOLDS.nim[1], RATIOS_THRESHOLDS.nim[2])

\* lines 248-257: min_thr, max_thr = (0.05, 0.02), compared with <=
ProblemLoansTier(ratio, min_thr, max_thr) ==
    IF Raised(ratio) THEN ratio
    ELSE IF FloatLe(ratio, max_thr) THEN RatioResult(ratio, "Healthy")
    ELSE IF FloatLe(ratio, min_thr) THEN RatioResult(ratio, "Concerning")
    ELSE RatioResult(ratio, "Critical")

\* estimated_npl = self.loans_to_customers * 0.03
\* ratio = estimated_npl / self.loans_to_customers
calculate_problem_loans_ratio(self) ==
    IF IsZero(self.loans_to_customers)
    THEN RatioResult(Float(0, 1), "Cannot calculate: Loans to customers is zero")
    ELSE ProblemLoansTier(QuotientOf(ProductOf(self.loans_to_customers, F_0_03),
                                     self.loans_to_customers),
                          RATIOS_THRESHOLDS.problem_loans_ratio[1],
                          RATIOS_THRESHOLDS.problem_loans_ratio[2])

RatioNames ==
    {"capital_adequacy", "instant_liquidity", "current_liquidity", "roe", "roa", "nim",
     "problem_loans_ratio"}

\* an exception raised by one of the seven calls leaves calculate_all_ratios
Propagate(all_ratios) ==
    IF \E name \in RatioNames : all_ratios[name] = ZeroDivisionError THEN ZeroDivisionError
    ELSE all_ratios

\* calculate_all_ratios
calculate_all_ratios(self) ==
    Propagate([capital_adequacy |-> calculate_capital_adequacy(self),
               instant_liquidity |-> calculate_instant_liquidity(self),
               current_liquidity |-> calculate_current_liquidity(self),
               roe |-> calculate_roe(self),
               roa |-> calculate_roa(self),
               nim |-> calculate_nim(self),
               problem_loans_ratio |-> calculate_problem_loans_ratio(self)])


-----------------------------------------------------------------------------
(* Stability index (analytics/calculator.py 18-51 and 278-331)              *)

FloatOne == Float(1, 1)

\* pd.isna(value) or value is None
IsMissing(val) == val = FloatNaN \/ val = None

\* a variant of normalize_score without the clamp at the minimum
normalize_score_unclamped(val, min_thr, max_thr, reverse) ==
    IF IsMissing(val) THEN FloatZero
    ELSE IF reverse
    THEN IF FloatLe(val, min_thr) THEN FloatOne
         ELSE Divide(Minus(max_thr, val), Minus(max_thr, min_thr))
    ELSE IF FloatGe(val, max_thr) THEN FloatOne
         ELSE Divide(Minus(val, min_thr), Minus(max_thr, min_thr))

\* normalize_score(value, min_thr, max_thr, reverse)
normalize_score(val, min_thr, max_thr, reverse) ==
    IF IsMissing(val) THEN FloatZero
    ELSE IF reverse
    THEN IF FloatLe(val, min_thr) THEN FloatOne
         ELSE IF FloatGe(val, max_thr) THEN FloatZero
         ELSE Divide(Minus(max_thr, val), Minus(max_thr, min_thr))
    ELSE IF FloatGe(val, max_thr) THEN FloatOne
         ELSE IF FloatLe(val, min_thr) THEN FloatZero
         ELSE Divide(Minus(val, min_thr), Minus(max_thr, min_thr))

\* a variant of the weights with the first two exchanged
weights_exchanged ==
    [capital_adequacy |-> Float(15, 100),
     instant_liquidity |-> Float(20, 100),
     current_liquidity |-> Float(15, 100),
     roe |-> Float(15, 100),
     roa |-> Float(15, 100),
     nim |-> Float(10, 100),
     problem_loans_ratio |-> Float(10, 100)]

\* calculate_bsi, lines 288-296: the weights, and the order of the dictionary
weights ==
    [capital_adequacy |-> Float(20, 100),
     instant_liquidity |-> Float(15, 100),
     current_liquidity |-> Float(15, 100),
     roe |-> Float(15, 100),
     roa |-> Float(15, 100),
     nim |-> Float(10, 100),
     problem_loans_ratio |-> Float(10, 100)]

WeightOrder ==
    <<"capital_adequacy", "instant_liquidity", "current_liquidity", "roe", "roa", "nim",
      "problem_loans_ratio">>

\* lines 300-312: min_thr, max_thr = RATIOS_THRESHOLDS[ratio_name], in that order
\* for every ratio; reverse=True for problem_loans_ratio only
NormalizedScore(ratio_name, ratio_value) ==
    normalize_score(ratio_value, RATIOS_THRESHOLDS[ratio_name][1],
                    RATIOS_THRESHOLDS[ratio_name][2], ratio_name = "problem_loans_ratio")

\* lines 298-312
NormalizedScores(all_ratios) ==
    [ratio_name \in RatioNames |->
        NormalizedScore(ratio_name, all_ratios[ratio_name].value)]

\* a variant of AddTerm that leaves the weight out
AddTermUnweighted(total, score, weight) == Plus(total, score)

\* line 317: bsi += normalized_scores[ratio_name] * weight
AddTerm(total, score, weight) == Plus(total, Times(score, weight))

\* lines 315-317: bsi = 0.0, then one term after the other over the first n
\* weights; each running total is a value before the next term is added
RECURSIVE WeightedSum(_, _, _, _)
WeightedSum(scores, weight_of, order, n) ==
    IF n = 0 THEN FloatZero
    ELSE CHOOSE total \in
             {AddTerm(before, scores[order[n]], weight_of[order[n]]) :
                 before \in {WeightedSum(scores, weight_of, order, n - 1)}} : TRUE

\* the literals 0.8, 0.6, 0.4 and 0.2
F_0_8 == Float(8, 10)
F_0_6 == Float(6, 10)
F_0_4 == Float(4, 10)
F_0_2 == Float(2, 10)

\* a variant of BsiInterpretation whose bands start above their boundary
BsiInterpretationStrict(score) ==
    IF FloatGt(score, F_0_8) THEN "Excellent stability"
    ELSE IF FloatGt(score, F_0_6) THEN "Good stability"
    ELSE IF FloatGt(score, F_0_4) THEN "Adequate stability"
    ELSE IF FloatGt(score, F_0_2) THEN "Concerning stability"
    ELSE "Critical stability"

\* lines 320-329; of the interpretation the band is kept, the formatted score
\* after it is not
BsiInterpretation(score) ==
    IF FloatGe(score, F_0_8) THEN "Excellent stability"
    ELSE IF FloatGe(score, F_0_6) THEN "Good stability"
    ELSE IF FloatGe(score, F_0_4) THEN "Adequate stability"
    ELSE IF FloatGe(score, F_0_2) THEN "Concerning stability"
    ELSE "Critical stability"

\* line 331: return bsi, interpretation
BsiResult(score) == [score |-> score, interpretation |-> BsiInterpretation(score)]

\* lines 314-331, from the normalized scores on
ComposeBsi(scores) == BsiResult(WeightedSum(scores, weights, WeightOrder, 7))

\* lines 285-312: the normalized scores of the calculator's own ratios; an
\* exception raised by calculate_all_ratios leaves calculate_bsi
ScoresOfRatios(all_ratios) ==
    IF all_ratios = ZeroDivisionError THEN ZeroDivisionError
    ELSE NormalizedScores(all_ratios)

ComposeScores(scores) ==
    IF scores = ZeroDivisionError THEN ZeroDivisionError ELSE ComposeBsi(scores)

\* BankingRatiosCalculator.calculate_bsi
calculate_bsi(self) ==
    CHOOSE returned \in
        {ComposeScores(scores) :
            scores \in {ScoresOfRatios(all_ratios) :
                           all_ratios \in {calculate_all_ratios(self)}}} : TRUE

-----------------------------------------------------------------------------
(* Stability index of the platform (banking_analysis_platform/analytics/bsi.py) *)

\* bsi.py lines 56-64: the weights, and the order of the dictionary
platform_weights ==
    [capital_adequacy_ratio |-> Float(20, 100),
     instant_liquidity_ratio |-> Float(15, 100),
     current_liquidity_ratio |-> Float(15, 100),
     roe |-> Float(15, 100),
     roa |-> Float(15, 100),
     net_interest_margin |-> Float(10, 100),
     non_performing_loan_ratio |-> Float(10, 100)]

PlatformWeightOrder ==
    <<"capital_adequacy_ratio", "instant_liquidity_ratio", "current_liquidity_ratio", "roe",
      "roa", "net_interest_margin", "non_performing_loan_ratio">>

\* bsi.py line 5: RATIO_THRESHOLDS of banking_analysis_platform.config.patterns, a
\* module that is not among the sources; the table of threshold pairs is taken to
\* be the one of config.py, keyed by the names of the ratios
RATIO_THRESHOLDS == RATIOS_THRESHOLDS

\* bsi.py lines 8-41: normalize_score(value, min_thr, max_thr, reverse)
platform_normalize_score(val, min_thr, max_thr, reverse) ==
    IF IsMissing(val) THEN FloatZero
    ELSE IF reverse
    THEN IF FloatLe(val, min_thr) THEN FloatOne
         ELSE IF FloatGe(val, max_thr) THEN FloatZero
         ELSE Divide(Minus(max_thr, val), Minus(max_thr, min_thr))
    ELSE IF FloatGe(val, max_thr) THEN FloatOne
         ELSE IF FloatLe(val, min_thr) THEN FloatZero
         ELSE Divide(Minus(val, min_thr), Minus(max_thr, min_thr))

\* the lookup of a key the dictionary does not have
KeyError == [raised |-> "KeyError"]

\* bsi.py line 87: min(ratio_value, 1.0) if ratio_value >= 0 else 0.0
DefaultNormalization(ratio_value) ==
    IF FloatGe(ratio_value, FloatZero)
    THEN IF FloatLe(ratio_value, FloatOne) THEN ratio_value ELSE FloatOne
    ELSE FloatZero

\* bsi.py lines 69-90: the score of one key of the weights
PlatformScore(ratio_name, ratios_in) ==
    IF ratio_name \in DOMAIN ratios_in
    THEN IF ratio_name = "non_performing_loan_ratio"
         THEN IF ratio_name \in DOMAIN RATIO_THRESHOLDS
              THEN platform_normalize_score(ratios_in[ratio_name].value,
                                            RATIO_THRESHOLDS[ratio_name][1],
                                            RATIO_THRESHOLDS[ratio_name][2], TRUE)
              ELSE KeyError
         ELSE IF ratio_name \in DOMAIN RATIO_THRESHOLDS
              THEN platform_normalize_score(ratios_in[ratio_name].value,
                                            RATIO_THRESHOLDS[ratio_name][1],
                                            RATIO_THRESHOLDS[ratio_name][2], FALSE)
              ELSE DefaultNormalization(ratios_in[ratio_name].value)
    ELSE FloatZero

\* bsi.py lines 67-90
PlatformScores(weight_of, ratios_in) ==
    [ratio_name \in DOMAIN weight_of |-> PlatformScore(ratio_name, ratios_in)]

\* bsi.py lines 94-97: total_weight += weight, over the first n weights
RECURSIVE TotalWeight(_, _, _)
TotalWeight(weight_of, order, n) ==
    IF n = 0 THEN FloatZero
    ELSE CHOOSE total \in
             {Plus(before, weight_of[order[n]]) :
                 before \in {TotalWeight(weight_of, order, n - 1)}} : TRUE

\* bsi.py lines 100-103
OverTotalWeight(weighted, total_weight) ==
    IF FloatGt(total_weight, FloatZero) THEN Divide(weighted, total_weight) ELSE FloatZero

\* bsi.py lines 106-115; of the interpretation the band is kept (in the source
\* 'Отличная', 'Хорошая', 'Удовлетворительная', 'Пониженная', 'Критическая
\* устойчивость'), the formatted score after it is not
PlatformInterpretation(score) ==
    IF FloatGe(score, F_0_8) THEN "Otlichnaya ustoychivost"
    ELSE IF FloatGe(score, F_0_6) THEN "Khoroshaya ustoychivost"
    ELSE IF FloatGe(score, F_0_4) THEN "Udovletvoritelnaya ustoychivost"
    ELSE IF FloatGe(score, F_0_2) THEN "Ponizhennaya ustoychivost"
    ELSE "Kriticheskaya ustoychivost"

\* bsi.py lines 92-117, from the normalized scores on
PlatformCompose(weight_of, order, scores) ==
    IF \E ratio_name \in DOMAIN scores : scores[ratio_name] = KeyError THEN KeyError
    ELSE CHOOSE returned \in
             {[score |-> score, interpretation |-> PlatformInterpretation(score)] :
                 score \in {OverTotalWeight(WeightedSum(scores, weight_of, order, Len(order)),
                                            TotalWeight(weight_of, order, Len(order)))}} : TRUE

\* bsi.calculate_bsi(financial_data, ratios); financial_data is not read
platform_calculate_bsi(ratios_in) ==
    PlatformCompose(platform_weights, PlatformWeightOrder,
                    PlatformScores(platform_weights, ratios_in))
-----------------------------------------------------------------------------
(* The account-code path (parser.py lines 279-380, repeated at 724-825, and *)
(* magic_pdf_parser.py lines 337-436).  A table is the sequence of its rows *)
(* [account_code, amount]; an account code is text, an amount a float or    *)
(* NaN; the tables are a dictionary from table names to tables, the result  *)
(* a dictionary from keys to floats.                                        *)

\* the text of an account code, from its digits
Code(digits) == [i \in 1..Len(digits) |-> 48 + digits[i]]

\* config.py lines 71-78
BALANCE_SHEET_ITEMS ==
    [total_assets |->
         {Code(<<1, 1, h, 0, 0>>) : h \in 0..9},
     total_liabilities |->
         {Code(<<2, 1, h, 0, 0>>) : h \in 0..9},
     equity |->
         {Code(<<2, 0, 8, 0, 1>>), Code(<<2, 0, 9, 0, 1>>), Code(<<2, 1, 0, 0, 1>>),
          Code(<<2, 1, 1, 0, 1>>)},
     cash_and_equivalents |->
         {Code(<<1, 0, 1, 0, 1>>), Code(<<1, 0, 2, 0, 2>>), Code(<<1, 0, 3, 0, 2>>)},
     loans_to_customers |->
         {Code(<<1, 1, 6, 0, 1>>), Code(<<1, 1, 6, 0, 2>>), Code(<<1, 1, 6, 0, 3>>)},
     deposits_from_customers |->
         {Code(<<2, 0, 2, 0, 2>>), Code(<<2, 0, 2, 0, 3>>), Code(<<2, 0, 2, 0, 4>>),
          Code(<<2, 0, 3, 0, 1>>)}]

\* code.startswith(prefix)
startswith(code, prefix) ==
    Len(code) >= Len(prefix) /\ SubSeq(code, 1, Len(prefix)) = prefix

\* pd.notna(amount)
notna(amount) == ~IsMissing(amount)

\* a variant of AddAsset with two independent tests
AddAssetTwice(total, row) ==
    IF ~notna(row.amount) THEN total
    ELSE IF startswith(row.account_code, Code(<<1>>))
              /\ row.account_code \in BALANCE_SHEET_ITEMS.total_assets
    THEN Plus(Plus(total, row.amount), row.amount)
    ELSE IF startswith(row.account_code, Code(<<1>>))
              \/ row.account_code \in BALANCE_SHEET_ITEMS.total_assets
    THEN Plus(total, row.amount)
    ELSE total

\* lines 300-305
AddAsset(total, row) ==
    IF ~notna(row.amount) THEN total
    ELSE IF startswith(row.account_code, Code(<<1>>)) THEN Plus(total, row.amount)
    ELSE IF row.account_code \in BALANCE_SHEET_ITEMS.total_assets
    THEN Plus(total, row.amount)
    ELSE total

\* lines 314-319
AddLiability(total, row) ==
    IF ~notna(row.amount) THEN total
    ELSE IF startswith(row.account_code, Code(<<2>>)) THEN Plus(total, row.amount)
    ELSE IF row.account_code \in BALANCE_SHEET_ITEMS.total_liabilities
    THEN Plus(total, row.amount)
    ELSE total

\* lines 331-332 and 341-342
AddListed(item, total, row) ==
    IF notna(row.amount) /\ row.account_code \in BALANCE_SHEET_ITEMS[item]
    THEN Plus(total, row.amount)
    ELSE total

\* lines 357-365: interest and commission income
AddInterestIncome(total, row) ==
    IF notna(row.amount)
          /\ row.account_code \in {Code(<<7, 0, 6, 0, 1>>), Code(<<7, 0, 7, 0, 1>>)}
    THEN Plus(total, row.amount)
    ELSE total

\* lines 357-365: interest and commission expense
AddInterestExpense(total, row) ==
    IF notna(row.amount)
          /\ row.account_code \in {Code(<<7, 0, 6, 0, 2>>), Code(<<7, 0, 7, 0, 2>>)}
    THEN Plus(total, row.amount)
    ELSE total

\* lines 374-376
AddNetIncome(total, row) ==
    IF notna(row.amount) THEN Plus(total, row.amount) ELSE total

\* one turn of the loop that computes the total named
AddRow(total_name, total, row) ==
    CASE total_name = "total_assets" -> AddAsset(total, row)
      [] total_name = "total_liabilities" -> AddLiability(total, row)
      [] total_name = "cash_and_equivalents" -> AddListed(total_name, total, row)
      [] total_name = "loans_to_customers" -> AddListed(total_name, total, row)
      [] total_name = "interest_income" -> AddInterestIncome(total, row)
      [] total_name = "interest_expense" -> AddInterestExpense(total, row)
      [] total_name = "net_income" -> AddNetIncome(total, row)

\* total = 0, then for _, row in df.iterrows(): the first n rows, in order
RECURSIVE SumRows(_, _, _)
SumRows(total_name, rows, n) ==
    IF n = 0 THEN FloatZero
    ELSE CHOOSE total \in
             {AddRow(total_name, before, rows[n]) :
                 before \in {SumRows(total_name, rows, n - 1)}} : TRUE

Total(total_name, rows) == SumRows(total_name, rows, Len(rows))

\* lines 324: aggregated['equity']
WithEquity(totals) ==
    totals @@ ("equity" :> Minus(totals.total_assets, totals.total_liabilities))

\* lines 292-344
BalanceSheetKeys(bs_df) ==
    WithEquity([total_assets |-> Total("total_assets", bs_df),
                total_liabilities |-> Total("total_liabilities", bs_df)])
        @@ [cash_and_equivalents |-> Total("cash_and_equivalents", bs_df),
            loans_to_customers |-> Total("loans_to_customers", bs_df)]

\* lines 347-378
IncomeStatementKeys(is_df) ==
    [net_interest_income |->
         Minus(Total("interest_income", is_df), Total("interest_expense", is_df)),
     net_income |-> Total("net_income", is_df)]

\* aggregated = {}
EmptyDict == [key \in {} |-> None]

\* parser.aggregate_financial_data(tables)
parser_aggregate_financial_data(tables_in) ==
    (IF "balance_sheet" \in DOMAIN tables_in
     THEN BalanceSheetKeys(tables_in["balance_sheet"]) ELSE EmptyDict)
        @@ (IF "income_statement" \in DOMAIN tables_in
            THEN IncomeStatementKeys(tables_in["income_statement"]) ELSE EmptyDict)
-----------------------------------------------------------------------------
(* The tables processor (core/redyxlsx.py, BankTablesProcessor), which the  *)
(* aggregator is said to follow.  Lines 219-224 (is_table_header) and the   *)
(* part of lines 234-272 that splits a row into label and values are the    *)
(* text of data_aggregator.py 249-254 and 266-304: is_table_header, AllNaN, *)
(* non_empty, IndicatorLoop and IndicatorName stand for both.               *)

\* redyxlsx.py 32-80: the indicators of the tables processor in declaration order,
\* each with its regex synonyms in order
processor_financial_patterns ==
    <<
    [ name |-> "total_assets", patterns |-> <<
        \* итого активов
        Lit(<<1080, 1090, 1086, 1075, 1086, 32, 1072, 1082, 1090, 1080, 1074, 1086, 1074>>),
        \* валюта баланса
        Lit(<<1074, 1072, 1083, 1102, 1090, 1072, 32, 1073, 1072, 1083, 1072, 1085, 1089, 1072>>),
        \* активы всего
        Lit(<<1072, 1082, 1090, 1080, 1074, 1099, 32, 1074, 1089, 1077, 1075, 1086>>),
        \* ^активы$
        Bol \o Lit(<<1072, 1082, 1090, 1080, 1074, 1099>>) \o Eol,
        \* активы.*конец
        Lit(<<1072, 1082, 1090, 1080, 1074, 1099>>) \o
            AnyStar \o
            Lit(<<1082, 1086, 1085, 1077, 1094>>)
    >> ],
    [ name |-> "loans_clients", patterns |-> <<
        \* кредиты и авансы клиентам
        Lit(<<1082, 1088, 1077, 1076, 1080, 1090, 1099, 32, 1080, 32, 1072, 1074, 1072, 1085,
            1089, 1099, 32, 1082, 1083, 1080, 1077, 1085, 1090, 1072, 1084>>),
        \* кредитный портфель
        Lit(<<1082, 1088, 1077, 1076, 1080, 1090, 1085, 1099, 1081, 32, 1087, 1086, 1088, 1090,
            1092, 1077, 1083, 1100>>),
        \* ссуды клиентам
        Lit(<<1089, 1089, 1091, 1076, 1099, 32, 1082, 1083, 1080, 1077, 1085, 1090, 1072, 1084>>),
        \* выданные кредиты
        Lit(<<1074, 1099, 1076, 1072, 1085, 1085, 1099, 1077, 32, 1082, 1088, 1077, 1076, 1080,
            1090, 1099>>),
        \* кредиты.*физическим
        Lit(<<1082, 1088, 1077, 1076, 1080, 1090, 1099>>) \o
            AnyStar \o
            Lit(<<1092, 1080, 1079, 1080, 1095, 1077, 1089, 1082, 1080, 1084>>),
        \* кредиты.*юридическим
        Lit(<<1082, 1088, 1077, 1076, 1080, 1090, 1099>>) \o
            AnyStar \o
            Lit(<<1102, 1088, 1080, 1076, 1080, 1095, 1077, 1089, 1082, 1080, 1084>>)
    >> ],
    [ name |-> "deposits", patterns |-> <<
        \* депозиты
        Lit(<<1076, 1077, 1087, 1086, 1079, 1080, 1090, 1099>>),
        \* привлеченные средства
        Lit(<<1087, 1088, 1080, 1074, 1083, 1077, 1095, 1077, 1085, 1085, 1099, 1077, 32, 1089,
            1088, 1077, 1076, 1089, 1090, 1074, 1072>>),
        \* средства клиентов
        Lit(<<1089, 1088, 1077, 1076, 1089, 1090, 1074, 1072, 32, 1082, 1083, 1080, 1077, 1085,
            1090, 1086, 1074>>),
        \* обязательства.*клиентов
        Lit(<<1086, 1073, 1103, 1079, 1072, 1090, 1077, 1083, 1100, 1089, 1090, 1074, 1072>>) \o
            AnyStar \o
            Lit(<<1082, 1083, 1080, 1077, 1085, 1090, 1086, 1074>>),
        \* вклады
        Lit(<<1074, 1082, 1083, 1072, 1076, 1099>>)
    >> ],
    [ name |-> "net_profit", patterns |-> <<
        \* чистая прибыль
        Lit(<<1095, 1080, 1089, 1090, 1072, 1103, 32, 1087, 1088, 1080, 1073, 1099, 1083, 1100>>),
        \* прибыль.*налог
        Lit(<<1087, 1088, 1080, 1073, 1099, 1083, 1100>>) \o
            AnyStar \o
            Lit(<<1085, 1072, 1083, 1086, 1075>>),
        \* прибыль за год
        Lit(<<1087, 1088, 1080, 1073, 1099, 1083, 1100, 32, 1079, 1072, 32, 1075, 1086, 1076>>),
        \* чистая прибыль.*год
        Lit(<<1095, 1080, 1089, 1090, 1072, 1103, 32, 1087, 1088, 1080, 1073, 1099, 1083, 1100>>) \o
            AnyStar \o
            Lit(<<1075, 1086, 1076>>),
        \* прибыль.*отчетный период
        Lit(<<1087, 1088, 1080, 1073, 1099, 1083, 1100>>) \o
            AnyStar \o
            Lit(<<1086, 1090, 1095, 1077, 1090, 1085, 1099, 1081, 32, 1087, 1077, 1088, 1080, 1086,
            1076>>)
    >> ],
    [ name |-> "operating_income", patterns |-> <<
        \* операционный доход
        Lit(<<1086, 1087, 1077, 1088, 1072, 1094, 1080, 1086, 1085, 1085, 1099, 1081, 32, 1076,
            1086, 1093, 1086, 1076>>),
        \* операционные поступления
        Lit(<<1086, 1087, 1077, 1088, 1072, 1094, 1080, 1086, 1085, 1085, 1099, 1077, 32, 1087,
            1086, 1089, 1090, 1091, 1087, 1083, 1077, 1085, 1080, 1103>>),
        \* доходы от основной деятельности
        Lit(<<1076, 1086, 1093, 1086, 1076, 1099, 32, 1086, 1090, 32, 1086, 1089, 1085, 1086,
            1074, 1085, 1086, 1081, 32, 1076, 1077, 1103, 1090, 1077, 1083, 1100, 1085,
            1086, 1089, 1090, 1080>>),
        \* доходы.*основная
        Lit(<<1076, 1086, 1093, 1086, 1076, 1099>>) \o
            AnyStar \o
            Lit(<<1086, 1089, 1085, 1086, 1074, 1085, 1072, 1103>>)
    >> ],
    [ name |-> "operating_profit", patterns |-> <<
        \* операционная прибыль
        Lit(<<1086, 1087, 1077, 1088, 1072, 1094, 1080, 1086, 1085, 1085, 1072, 1103, 32, 1087,
            1088, 1080, 1073, 1099, 1083, 1100>>),
        \* прибыль от основной деятельности
        Lit(<<1087, 1088, 1080, 1073, 1099, 1083, 1100, 32, 1086, 1090, 32, 1086, 1089, 1085,
            1086, 1074, 1085, 1086, 1081, 32, 1076, 1077, 1103, 1090, 1077, 1083, 1100,
            1085, 1086, 1089, 1090, 1080>>)
    >> ],
    [ name |-> "roa", patterns |-> <<
        \* roa
        Lit(<<114, 111, 97>>),
        \* рентабельность активов
        Lit(<<1088, 1077, 1085, 1090, 1072, 1073, 1077, 1083, 1100, 1085, 1086, 1089, 1090, 1100,
            32, 1072, 1082, 1090, 1080, 1074, 1086, 1074>>),
        \* роа
        Lit(<<1088, 1086, 1072>>),
        \* рентабельность.*активов
        Lit(<<1088, 1077, 1085, 1090, 1072, 1073, 1077, 1083, 1100, 1085, 1086, 1089, 1090, 1100>>) \o
            AnyStar \o
            Lit(<<1072, 1082, 1090, 1080, 1074, 1086, 1074>>)
    >> ],
    [ name |-> "roe", patterns |-> <<
        \* roe
        Lit(<<114, 111, 101>>),
        \* рентабельность собственного капитала
        Lit(<<1088, 1077, 1085, 1090, 1072, 1073, 1077, 1083, 1100, 1085, 1086, 1089, 1090, 1100,
            32, 1089, 1086, 1073, 1089, 1090, 1074, 1077, 1085, 1085, 1086, 1075, 1086,
            32, 1082, 1072, 1087, 1080, 1090, 1072, 1083, 1072>>),
        \* роэ
        Lit(<<1088, 1086, 1101>>),
        \* рентабельность.*капитала
        Lit(<<1088, 1077, 1085, 1090, 1072, 1073, 1077, 1083, 1100, 1085, 1086, 1089, 1090, 1100>>) \o
            AnyStar \o
            Lit(<<1082, 1072, 1087, 1080, 1090, 1072, 1083, 1072>>)
    >> ],
    [ name |-> "net_interest_margin", patterns |-> <<
        \* чистая процентная маржа
        Lit(<<1095, 1080, 1089, 1090, 1072, 1103, 32, 1087, 1088, 1086, 1094, 1077, 1085, 1090,
            1085, 1072, 1103, 32, 1084, 1072, 1088, 1078, 1072>>),
        \* процентная маржа
        Lit(<<1087, 1088, 1086, 1094, 1077, 1085, 1090, 1085, 1072, 1103, 32, 1084, 1072, 1088,
            1078, 1072>>),
        \* npm
        Lit(<<110, 112, 109>>),
        \* чистая.*маржа
        Lit(<<1095, 1080, 1089, 1090, 1072, 1103>>) \o
            AnyStar \o
            Lit(<<1084, 1072, 1088, 1078, 1072>>)
    >> ],
    [ name |-> "cost_to_income", patterns |-> <<
        \* затраты к доходу
        Lit(<<1079, 1072, 1090, 1088, 1072, 1090, 1099, 32, 1082, 32, 1076, 1086, 1093, 1086,
            1076, 1091>>),
        \* cir
        Lit(<<99, 105, 114>>),
        \* отношение затрат к доходу
        Lit(<<1086, 1090, 1085, 1086, 1096, 1077, 1085, 1080, 1077, 32, 1079, 1072, 1090, 1088,
            1072, 1090, 32, 1082, 32, 1076, 1086, 1093, 1086, 1076, 1091>>),
        \* коэффициент затрат
        Lit(<<1082, 1086, 1101, 1092, 1092, 1080, 1094, 1080, 1077, 1085, 1090, 32, 1079, 1072,
            1090, 1088, 1072, 1090>>)
    >> ],
    [ name |-> "npl_ratio", patterns |-> <<
        \* неработающ.*кредит
        Lit(<<1085, 1077, 1088, 1072, 1073, 1086, 1090, 1072, 1102, 1097>>) \o
            AnyStar \o
            Lit(<<1082, 1088, 1077, 1076, 1080, 1090>>),
        \* npl
        Lit(<<110, 112, 108>>),
        \* просрочен.*кредит
        Lit(<<1087, 1088, 1086, 1089, 1088, 1086, 1095, 1077, 1085>>) \o
            AnyStar \o
            Lit(<<1082, 1088, 1077, 1076, 1080, 1090>>),
        \* стадия 3
        Lit(<<1089, 1090, 1072, 1076, 1080, 1103, 32, 51>>),
        \* просроченная задолженность
        Lit(<<1087, 1088, 1086, 1089, 1088, 1086, 1095, 1077, 1085, 1085, 1072, 1103, 32, 1079,
            1072, 1076, 1086, 1083, 1078, 1077, 1085, 1085, 1086, 1089, 1090, 1100>>),
        \* нпл
        Lit(<<1085, 1087, 1083>>)
    >> ],
    [ name |-> "cet1_ratio", patterns |-> <<
        \* коэффициент.*адекватности
        Lit(<<1082, 1086, 1101, 1092, 1092, 1080, 1094, 1080, 1077, 1085, 1090>>) \o
            AnyStar \o
            Lit(<<1072, 1076, 1077, 1082, 1074, 1072, 1090, 1085, 1086, 1089, 1090, 1080>>),
        \* базель
        Lit(<<1073, 1072, 1079, 1077, 1083, 1100>>),
        \* капитал.*уровень
        Lit(<<1082, 1072, 1087, 1080, 1090, 1072, 1083>>) \o
            AnyStar \o
            Lit(<<1091, 1088, 1086, 1074, 1077, 1085, 1100>>),
        \* cet1
        Lit(<<99, 101, 116, 49>>),
        \* базовый капитал
        Lit(<<1073, 1072, 1079, 1086, 1074, 1099, 1081, 32, 1082, 1072, 1087, 1080, 1090, 1072,
            1083>>)
    >> ],
    [ name |-> "digital_penetration", patterns |-> <<
        \* доля цифровых клиентов
        Lit(<<1076, 1086, 1083, 1103, 32, 1094, 1080, 1092, 1088, 1086, 1074, 1099, 1093, 32,
            1082, 1083, 1080, 1077, 1085, 1090, 1086, 1074>>),
        \* цифровая проницаемость
        Lit(<<1094, 1080, 1092, 1088, 1086, 1074, 1072, 1103, 32, 1087, 1088, 1086, 1085, 1080,
            1094, 1072, 1077, 1084, 1086, 1089, 1090, 1100>>),
        \* цифровые клиенты.*доля
        Lit(<<1094, 1080, 1092, 1088, 1086, 1074, 1099, 1077, 32, 1082, 1083, 1080, 1077, 1085,
            1090, 1099>>) \o
            AnyStar \o
            Lit(<<1076, 1086, 1083, 1103>>),
        \* цифровизация.*клиентов
        Lit(<<1094, 1080, 1092, 1088, 1086, 1074, 1080, 1079, 1072, 1094, 1080, 1103>>) \o
            AnyStar \o
            Lit(<<1082, 1083, 1080, 1077, 1085, 1090, 1086, 1074>>)
    >> ],
    [ name |-> "mobile_penetration", patterns |-> <<
        \* мобильная проницаемость
        Lit(<<1084, 1086, 1073, 1080, 1083, 1100, 1085, 1072, 1103, 32, 1087, 1088, 1086, 1085,
            1080, 1094, 1072, 1077, 1084, 1086, 1089, 1090, 1100>>),
        \* доля мобильных клиентов
        Lit(<<1076, 1086, 1083, 1103, 32, 1084, 1086, 1073, 1080, 1083, 1100, 1085, 1099, 1093,
            32, 1082, 1083, 1080, 1077, 1085, 1090, 1086, 1074>>),
        \* мобильный банкинг.*доля
        Lit(<<1084, 1086, 1073, 1080, 1083, 1100, 1085, 1099, 1081, 32, 1073, 1072, 1085, 1082,
            1080, 1085, 1075>>) \o
            AnyStar \o
            Lit(<<1076, 1086, 1083, 1103>>),
        \* мобильные.*клиенты
        Lit(<<1084, 1086, 1073, 1080, 1083, 1100, 1085, 1099, 1077>>) \o
            AnyStar \o
            Lit(<<1082, 1083, 1080, 1077, 1085, 1090, 1099>>)
    >> ],
    [ name |-> "active_digital_customers", patterns |-> <<
        \* активные цифровые клиенты
        Lit(<<1072, 1082, 1090, 1080, 1074, 1085, 1099, 1077, 32, 1094, 1080, 1092, 1088, 1086,
            1074, 1099, 1077, 32, 1082, 1083, 1080, 1077, 1085, 1090, 1099>>),
        \* mau
        Lit(<<109, 97, 117>>),
        \* активные пользователи
        Lit(<<1072, 1082, 1090, 1080, 1074, 1085, 1099, 1077, 32, 1087, 1086, 1083, 1100, 1079,
            1086, 1074, 1072, 1090, 1077, 1083, 1080>>),
        \* активные клиенты.*мобильный
        Lit(<<1072, 1082, 1090, 1080, 1074, 1085, 1099, 1077, 32, 1082, 1083, 1080, 1077, 1085,
            1090, 1099>>) \o
            AnyStar \o
            Lit(<<1084, 1086, 1073, 1080, 1083, 1100, 1085, 1099, 1081>>),
        \* активные.*цифровые
        Lit(<<1072, 1082, 1090, 1080, 1074, 1085, 1099, 1077>>) \o
            AnyStar \o
            Lit(<<1094, 1080, 1092, 1088, 1086, 1074, 1099, 1077>>)
    >> ],
    [ name |-> "number_of_branches", patterns |-> <<
        \* количество отделений
        Lit(<<1082, 1086, 1083, 1080, 1095, 1077, 1089, 1090, 1074, 1086, 32, 1086, 1090, 1076,
            1077, 1083, 1077, 1085, 1080, 1081>>),
        \* число отделений
        Lit(<<1095, 1080, 1089, 1083, 1086, 32, 1086, 1090, 1076, 1077, 1083, 1077, 1085, 1080,
            1081>>),
        \* сеть отделений
        Lit(<<1089, 1077, 1090, 1100, 32, 1086, 1090, 1076, 1077, 1083, 1077, 1085, 1080, 1081>>),
        \* отделения и филиалы.*количество
        Lit(<<1086, 1090, 1076, 1077, 1083, 1077, 1085, 1080, 1103, 32, 1080, 32, 1092, 1080,
            1083, 1080, 1072, 1083, 1099>>) \o
            AnyStar \o
            Lit(<<1082, 1086, 1083, 1080, 1095, 1077, 1089, 1090, 1074, 1086>>),
        \* офисы.*количество
        Lit(<<1086, 1092, 1080, 1089, 1099>>) \o
            AnyStar \o
            Lit(<<1082, 1086, 1083, 1080, 1095, 1077, 1089, 1090, 1074, 1086>>)
    >> ],
    [ name |-> "it_staff", patterns |-> <<
        \* it-персонал
        Lit(<<105, 116, 45, 1087, 1077, 1088, 1089, 1086, 1085, 1072, 1083>>),
        \* технический персонал
        Lit(<<1090, 1077, 1093, 1085, 1080, 1095, 1077, 1089, 1082, 1080, 1081, 32, 1087, 1077,
            1088, 1089, 1086, 1085, 1072, 1083>>),
        \* it staff
        Lit(<<105, 116, 32, 115, 116, 97, 102, 102>>),
        \* сотрудники.*информационные технологии
        Lit(<<1089, 1086, 1090, 1088, 1091, 1076, 1085, 1080, 1082, 1080>>) \o
            AnyStar \o
            Lit(<<1080, 1085, 1092, 1086, 1088, 1084, 1072, 1094, 1080, 1086, 1085, 1085, 1099, 1077,
            32, 1090, 1077, 1093, 1085, 1086, 1083, 1086, 1075, 1080, 1080>>),
        \* специалисты.*ит
        Lit(<<1089, 1087, 1077, 1094, 1080, 1072, 1083, 1080, 1089, 1090, 1099>>) \o
            AnyStar \o
            Lit(<<1080, 1090>>)
    >> ],
    [ name |-> "api", patterns |-> <<
        \* api
        Lit(<<97, 112, 105>>),
        \* интерфейс прикладного программирования
        Lit(<<1080, 1085, 1090, 1077, 1088, 1092, 1077, 1081, 1089, 32, 1087, 1088, 1080, 1082,
            1083, 1072, 1076, 1085, 1086, 1075, 1086, 32, 1087, 1088, 1086, 1075, 1088,
            1072, 1084, 1084, 1080, 1088, 1086, 1074, 1072, 1085, 1080, 1103>>),
        \* открытые api
        Lit(<<1086, 1090, 1082, 1088, 1099, 1090, 1099, 1077, 32, 97, 112, 105>>),
        \* api.*интеграция
        Lit(<<97, 112, 105>>) \o
            AnyStar \o
            Lit(<<1080, 1085, 1090, 1077, 1075, 1088, 1072, 1094, 1080, 1103>>)
    >> ],
    [ name |-> "paperless", patterns |-> <<
        \* безбумажный
        Lit(<<1073, 1077, 1079, 1073, 1091, 1084, 1072, 1078, 1085, 1099, 1081>>),
        \* безбумажные операции
        Lit(<<1073, 1077, 1079, 1073, 1091, 1084, 1072, 1078, 1085, 1099, 1077, 32, 1086, 1087,
            1077, 1088, 1072, 1094, 1080, 1080>>),
        \* безбумажные процессы
        Lit(<<1073, 1077, 1079, 1073, 1091, 1084, 1072, 1078, 1085, 1099, 1077, 32, 1087, 1088,
            1086, 1094, 1077, 1089, 1089, 1099>>),
        \* электронный документооборот
        Lit(<<1101, 1083, 1077, 1082, 1090, 1088, 1086, 1085, 1085, 1099, 1081, 32, 1076, 1086,
            1082, 1091, 1084, 1077, 1085, 1090, 1086, 1086, 1073, 1086, 1088, 1086, 1090>>)
    >> ],
    [ name |-> "electronic_signature", patterns |-> <<
        \* электронная подпись
        Lit(<<1101, 1083, 1077, 1082, 1090, 1088, 1086, 1085, 1085, 1072, 1103, 32, 1087, 1086,
            1076, 1087, 1080, 1089, 1100>>),
        \* цифровая подпись
        Lit(<<1094, 1080, 1092, 1088, 1086, 1074, 1072, 1103, 32, 1087, 1086, 1076, 1087, 1080,
            1089, 1100>>),
        \* e-подпись
        Lit(<<101, 45, 1087, 1086, 1076, 1087, 1080, 1089, 1100>>),
        \* эцп
        Lit(<<1101, 1094, 1087>>),
        \* электронно-цифровая подпись
        Lit(<<1101, 1083, 1077, 1082, 1090, 1088, 1086, 1085, 1085, 1086, 45, 1094, 1080, 1092,
            1088, 1086, 1074, 1072, 1103, 32, 1087, 1086, 1076, 1087, 1080, 1089, 1100>>)
    >> ],
    [ name |-> "remote_account_opening", patterns |-> <<
        \* удаленное открытие счета
        Lit(<<1091, 1076, 1072, 1083, 1077, 1085, 1085, 1086, 1077, 32, 1086, 1090, 1082, 1088,
            1099, 1090, 1080, 1077, 32, 1089, 1095, 1077, 1090, 1072>>),
        \* дистанционное открытие счета
        Lit(<<1076, 1080, 1089, 1090, 1072, 1085, 1094, 1080, 1086, 1085, 1085, 1086, 1077, 32,
            1086, 1090, 1082, 1088, 1099, 1090, 1080, 1077, 32, 1089, 1095, 1077, 1090,
            1072>>),
        \* онлайн-открытие счета
        Lit(<<1086, 1085, 1083, 1072, 1081, 1085, 45, 1086, 1090, 1082, 1088, 1099, 1090, 1080,
            1077, 32, 1089, 1095, 1077, 1090, 1072>>),
        \* цифровое открытие счета
        Lit(<<1094, 1080, 1092, 1088, 1086, 1074, 1086, 1077, 32, 1086, 1090, 1082, 1088, 1099,
            1090, 1080, 1077, 32, 1089, 1095, 1077, 1090, 1072>>)
    >> ],
    [ name |-> "churn_rate", patterns |-> <<
        \* коэффициент оттока
        Lit(<<1082, 1086, 1101, 1092, 1092, 1080, 1094, 1080, 1077, 1085, 1090, 32, 1086, 1090,
            1090, 1086, 1082, 1072>>),
        \* отток клиентов
        Lit(<<1086, 1090, 1090, 1086, 1082, 32, 1082, 1083, 1080, 1077, 1085, 1090, 1086, 1074>>),
        \* churn
        Lit(<<99, 104, 117, 114, 110>>),
        \* отток.*клиенты
        Lit(<<1086, 1090, 1090, 1086, 1082>>) \o
            AnyStar \o
            Lit(<<1082, 1083, 1080, 1077, 1085, 1090, 1099>>)
    >> ],
    [ name |-> "retention_rate", patterns |-> <<
        \* коэффициент удержания
        Lit(<<1082, 1086, 1101, 1092, 1092, 1080, 1094, 1080, 1077, 1085, 1090, 32, 1091, 1076,
            1077, 1088, 1078, 1072, 1085, 1080, 1103>>),
        \* удержание клиентов
        Lit(<<1091, 1076, 1077, 1088, 1078, 1072, 1085, 1080, 1077, 32, 1082, 1083, 1080, 1077,
            1085, 1090, 1086, 1074>>),
        \* лояльность
        Lit(<<1083, 1086, 1103, 1083, 1100, 1085, 1086, 1089, 1090, 1100>>),
        \* удержание.*клиенты
        Lit(<<1091, 1076, 1077, 1088, 1078, 1072, 1085, 1080, 1077>>) \o
            AnyStar \o
            Lit(<<1082, 1083, 1080, 1077, 1085, 1090, 1099>>)
    >> ],
    [ name |-> "products_per_customer", patterns |-> <<
        \* продукты на клиента
        Lit(<<1087, 1088, 1086, 1076, 1091, 1082, 1090, 1099, 32, 1085, 1072, 32, 1082, 1083,
            1080, 1077, 1085, 1090, 1072>>),
        \* количество продуктов на клиента
        Lit(<<1082, 1086, 1083, 1080, 1095, 1077, 1089, 1090, 1074, 1086, 32, 1087, 1088, 1086,
            1076, 1091, 1082, 1090, 1086, 1074, 32, 1085, 1072, 32, 1082, 1083, 1080,
            1077, 1085, 1090, 1072>>),
        \* среднее число продуктов
        Lit(<<1089, 1088, 1077, 1076, 1085, 1077, 1077, 32, 1095, 1080, 1089, 1083, 1086, 32,
            1087, 1088, 1086, 1076, 1091, 1082, 1090, 1086, 1074>>),
        \* продуктовая.*корзина
        Lit(<<1087, 1088, 1086, 1076, 1091, 1082, 1090, 1086, 1074, 1072, 1103>>) \o
            AnyStar \o
            Lit(<<1082, 1086, 1088, 1079, 1080, 1085, 1072>>)
    >> ],
    [ name |-> "cross_sell", patterns |-> <<
        \* кросс-продажи
        Lit(<<1082, 1088, 1086, 1089, 1089, 45, 1087, 1088, 1086, 1076, 1072, 1078, 1080>>),
        \* перекрестные продажи
        Lit(<<1087, 1077, 1088, 1077, 1082, 1088, 1077, 1089, 1090, 1085, 1099, 1077, 32, 1087,
            1088, 1086, 1076, 1072, 1078, 1080>>),
        \* дополнительные продукты
        Lit(<<1076, 1086, 1087, 1086, 1083, 1085, 1080, 1090, 1077, 1083, 1100, 1085, 1099, 1077,
            32, 1087, 1088, 1086, 1076, 1091, 1082, 1090, 1099>>),
        \* кросс.*продажи
        Lit(<<1082, 1088, 1086, 1089, 1089>>) \o
            AnyStar \o
            Lit(<<1087, 1088, 1086, 1076, 1072, 1078, 1080>>)
    >> ],
    [ name |-> "wallet_share", patterns |-> <<
        \* доля кошелька
        Lit(<<1076, 1086, 1083, 1103, 32, 1082, 1086, 1096, 1077, 1083, 1100, 1082, 1072>>),
        \* рыночная доля
        Lit(<<1088, 1099, 1085, 1086, 1095, 1085, 1072, 1103, 32, 1076, 1086, 1083, 1103>>),
        \* доля рынка
        Lit(<<1076, 1086, 1083, 1103, 32, 1088, 1099, 1085, 1082, 1072>>),
        \* кошелек.*клиента
        Lit(<<1082, 1086, 1096, 1077, 1083, 1077, 1082>>) \o
            AnyStar \o
            Lit(<<1082, 1083, 1080, 1077, 1085, 1090, 1072>>)
    >> ],
    [ name |-> "credit_cost", patterns |-> <<
        \* стоимость кредитов
        Lit(<<1089, 1090, 1086, 1080, 1084, 1086, 1089, 1090, 1100, 32, 1082, 1088, 1077, 1076,
            1080, 1090, 1086, 1074>>),
        \* стоимость риска
        Lit(<<1089, 1090, 1086, 1080, 1084, 1086, 1089, 1090, 1100, 32, 1088, 1080, 1089, 1082,
            1072>>),
        \* кор
        Lit(<<1082, 1086, 1088>>),
        \* резервы.*кредитные убытки
        Lit(<<1088, 1077, 1079, 1077, 1088, 1074, 1099>>) \o
            AnyStar \o
            Lit(<<1082, 1088, 1077, 1076, 1080, 1090, 1085, 1099, 1077, 32, 1091, 1073, 1099, 1090,
            1082, 1080>>),
        \* стоимость.*кредитования
        Lit(<<1089, 1090, 1086, 1080, 1084, 1086, 1089, 1090, 1100>>) \o
            AnyStar \o
            Lit(<<1082, 1088, 1077, 1076, 1080, 1090, 1086, 1074, 1072, 1085, 1080, 1103>>)
    >> ],
    [ name |-> "allowance_for_loan_impairment_losses_to_non_performing_loans", patterns |-> <<
        \* резервы под кредитные убытки к проблемным кредитам
        Lit(<<1088, 1077, 1079, 1077, 1088, 1074, 1099, 32, 1087, 1086, 1076, 32, 1082, 1088,
            1077, 1076, 1080, 1090, 1085, 1099, 1077, 32, 1091, 1073, 1099, 1090, 1082,
            1080, 32, 1082, 32, 1087, 1088, 1086, 1073, 1083, 1077, 1084, 1085, 1099,
            1084, 32, 1082, 1088, 1077, 1076, 1080, 1090, 1072, 1084>>),
        \* коэффициент резервирования
        Lit(<<1082, 1086, 1101, 1092, 1092, 1080, 1094, 1080, 1077, 1085, 1090, 32, 1088, 1077,
            1079, 1077, 1088, 1074, 1080, 1088, 1086, 1074, 1072, 1085, 1080, 1103>>),
        \* покрытие нпл резервами
        Lit(<<1087, 1086, 1082, 1088, 1099, 1090, 1080, 1077, 32, 1085, 1087, 1083, 32, 1088,
            1077, 1079, 1077, 1088, 1074, 1072, 1084, 1080>>),
        \* резервы.*нпл
        Lit(<<1088, 1077, 1079, 1077, 1088, 1074, 1099>>) \o
            AnyStar \o
            Lit(<<1085, 1087, 1083>>)
    >> ]
    >>

\* redyxlsx.py 84-94: the unit patterns of the tables processor in order; here
\*  \.?  is an optional point and  \s*  any run of white space
processor_unit_patterns ==
    <<
        \* млрд\.?\s*р\.?
        [ pattern |-> Lit(<<1084, 1083, 1088, 1076>>) \o
                          LitOpt(46) \o
                          SpaceStar \o
                          Lit(<<1088>>) \o
                          LitOpt(46),
          multiplier |-> Dec(1, 9) ],
        \* млрд\.?\s*руб\.?
        [ pattern |-> Lit(<<1084, 1083, 1088, 1076>>) \o
                          LitOpt(46) \o
                          SpaceStar \o
                          Lit(<<1088, 1091, 1073>>) \o
                          LitOpt(46),
          multiplier |-> Dec(1, 9) ],
        \* млрд
        [ pattern |-> Lit(<<1084, 1083, 1088, 1076>>),
          multiplier |-> Dec(1, 9) ],
        \* млн\.?\s*р\.?
        [ pattern |-> Lit(<<1084, 1083, 1085>>) \o
                          LitOpt(46) \o
                          SpaceStar \o
                          Lit(<<1088>>) \o
                          LitOpt(46),
          multiplier |-> Dec(1, 6) ],
        \* млн\.?\s*руб\.?
        [ pattern |-> Lit(<<1084, 1083, 1085>>) \o
                          LitOpt(46) \o
                          SpaceStar \o
                          Lit(<<1088, 1091, 1073>>) \o
                          LitOpt(46),
          multiplier |-> Dec(1, 6) ],
        \* млн
        [ pattern |-> Lit(<<1084, 1083, 1085>>),
          multiplier |-> Dec(1, 6) ],
        \* тыс\.?\s*р\.?
        [ pattern |-> Lit(<<1090, 1099, 1089>>) \o
                          LitOpt(46) \o
                          SpaceStar \o
                          Lit(<<1088>>) \o
                          LitOpt(46),
          multiplier |-> Dec(1, 3) ],
        \* тыс\.?\s*руб\.?
        [ pattern |-> Lit(<<1090, 1099, 1089>>) \o
                          LitOpt(46) \o
                          SpaceStar \o
                          Lit(<<1088, 1091, 1073>>) \o
                          LitOpt(46),
          multiplier |-> Dec(1, 3) ],
        \* тыс
        [ pattern |-> Lit(<<1090, 1099, 1089>>),
          multiplier |-> Dec(1, 3) ]
    >>
\* redyxlsx.py 170: re.sub(r'^[^\d\-\.,]+', '', s): the leading run of characters
\* that are no digit, minus sign, point or comma removed
RECURSIVE ProcessorStripLeadingJunk(_)
ProcessorStripLeadingJunk(s) ==
    IF s # <<>> /\ ~(IsDigit(Head(s)) \/ Head(s) \in {45, 46, 44})
    THEN ProcessorStripLeadingJunk(Tail(s))
    ELSE s

\* redyxlsx.py 157-190: BankTablesProcessor.parse_russian_number for a string
processor_parse_russian_number(val) ==
    IF val \in {<<>>, <<45>>, <<8212>>, <<8211>>} THEN None
    ELSE ToFloatGuarded(
             NormalizeSeparators(
                 ProcessorStripLeadingJunk(
                     StripTrailingJunk(Strip(Replace(val, 160, <<32>>))))))

\* redyxlsx.py 137-145: the first unit pattern, in order, that is found in
\* val_str and whose removal leaves a number
RECURSIVE ProcessorUnitLoop(_, _, _)
ProcessorUnitFound(num, val_str, patterns, i) ==
    IF num # None THEN [num |-> num, multiplier |-> patterns[i].multiplier]
    ELSE ProcessorUnitLoop(val_str, patterns, i + 1)

ProcessorUnitLoop(val_str, patterns, i) ==
    IF i > Len(patterns) THEN [num |-> None, multiplier |-> One]
    ELSE IF re_search(patterns[i].pattern, val_str, TRUE)
         THEN ProcessorUnitFound(
                  processor_parse_russian_number(
                      Strip(re_sub(patterns[i].pattern, val_str, TRUE))),
                  val_str, patterns, i)
         ELSE ProcessorUnitLoop(val_str, patterns, i + 1)

\* redyxlsx.py 147-149: without a unit, the text itself is parsed
ProcessorPlainNumber(with_unit, val_str) ==
    IF with_unit.num # None THEN with_unit
    ELSE [num |-> processor_parse_russian_number(val_str), multiplier |-> One]

\* redyxlsx.py 128-155: BankTablesProcessor.parse_number_with_unit(value)
processor_parse_number_with_unit(cell) ==
    IF isna(cell) THEN [num |-> None, multiplier |-> One]
    ELSE IF isnum(cell) THEN [num |-> cell.num, multiplier |-> One]
    ELSE IF cell.text \in {<<>>, <<45>>, <<8212>>} THEN [num |-> None, multiplier |-> One]
    ELSE ProcessorPlainNumber(
             ProcessorUnitLoop(Strip(Replace(cell.text, 160, <<32>>)),
                               processor_unit_patterns, 1),
             Strip(Replace(cell.text, 160, <<32>>)))

\* the cells of the tables given whole
TableCells == UNION {{row[i] : i \in 1..Len(row)} : row \in TableRowMenu}

\* what the processor finds in every cell and row of these tables (computed
\* once): the unit in the text of the cell (redyxlsx.py 196-199), the unit of the
\* upper-cased patterns in the upper-cased cell (lines 243-251), the number of
\* the cell (line 283) and the indicator of the row (lines 276-277)
ProcessorUnitInCell ==
    [cell \in TableCells |->
        IF isstr(cell) THEN FirstUnit(cell.text, processor_unit_patterns, 1, TRUE) ELSE None]

ProcessorUpperUnitPatterns ==
    [i \in 1..Len(processor_unit_patterns) |->
        [pattern |-> PatternUpper(processor_unit_patterns[i].pattern),
         multiplier |-> processor_unit_patterns[i].multiplier]]

ProcessorUnitInUpperCell ==
    [cell \in TableCells |->
        IF isstr(cell)
        THEN FirstUnit(Strip(StrUpper(cell.text)), ProcessorUpperUnitPatterns, 1, FALSE)
        ELSE None]

ProcessorParsedCell == [cell \in TableCells |-> processor_parse_number_with_unit(cell)]

RECURSIVE ProcessorMatchLoop(_, _)
ProcessorMatchLoop(indicator_name, i) ==
    IF i > Len(processor_financial_patterns) THEN 0
    ELSE IF AnyPatternMatches(processor_financial_patterns[i].patterns, indicator_name) THEN i
    ELSE ProcessorMatchLoop(indicator_name, i + 1)

ProcessorIndicatorOfRow ==
    [row \in TableRowMenu |-> ProcessorMatchLoop(IndicatorName(row), 1)]

ProcessorUnitOfCell(row, col_idx) ==
    IF col_idx >= 0 /\ col_idx < Len(row) THEN ProcessorUnitInCell[row[col_idx + 1]] ELSE None

\* redyxlsx.py 192-217: BankTablesProcessor.detect_units_in_context(row, col_idx)
processor_detect_units_in_context(row, col_idx) ==
    FirstFound(ProcessorUnitOfCell(row, col_idx), ProcessorUnitOfCell(row, col_idx + 1),
               ProcessorUnitOfCell(row, col_idx - 1))

\* redyxlsx.py 243-251: the units found in the first 10 columns of the row
RECURSIVE ProcessorScanUnits(_, _, _)
ProcessorScanUnits(units, row, col_idx) ==
    IF col_idx >= Min(ScanColumns, Len(row)) THEN units
    ELSE ProcessorScanUnits(SetUnit(units, col_idx, ProcessorUnitInUpperCell[row[col_idx + 1]]),
                            row, col_idx + 1)

\* redyxlsx.py 295-296
ProcessorPercentageIndicators ==
    {"roa", "roe", "net_interest_margin", "cost_to_income", "npl_ratio", "cet1_ratio",
     "churn_rate", "retention_rate"}

\* redyxlsx.py 310-311
ProcessorAssumedBillions ==
    {"total_assets", "loans_clients", "deposits", "net_profit", "operating_income"}

\* redyxlsx.py 294-315: the value to store for a parsed number, None when it is
\* dropped
ProcessorFinalValue(param_name, num, multiplier) ==
    IF param_name \in ProcessorPercentageIndicators
    THEN (IF DecGt(num, Dec(100, 0)) /\ multiplier = One THEN None ELSE num)
    ELSE IF /\ param_name \in ProcessorAssumedBillions
            /\ DecLt(DecMul(num, multiplier), Dec(1, 12))
            /\ multiplier = One
            /\ DecGt(num, One)
         THEN DecMul(DecMul(num, multiplier), Dec(1, 9))
         ELSE DecMul(num, multiplier)

\* redyxlsx.py 288-289: current_units.get(col_idx, detect_units_in_context(row, col_idx))
ProcessorContextMultiplier(row, units, col_idx) ==
    IF col_idx \in DOMAIN units THEN units[col_idx]
    ELSE processor_detect_units_in_context(row, col_idx)

\* redyxlsx.py 283-315 for one cell: the value to store, None when the cell is
\* skipped
ProcessorResolved(param_name, parsed, context_multiplier) ==
    IF parsed.num = None THEN None
    ELSE ProcessorFinalValue(param_name, parsed.num,
                             DecMul(parsed.multiplier, context_multiplier))

\* redyxlsx.py 318: data[param_name] = final_value, the key added when it is new
ProcessorStore(data_dict, param_name, final_value) ==
    IF final_value = None THEN data_dict
    ELSE [k \in DOMAIN data_dict \cup {param_name} |->
             IF k = param_name THEN final_value ELSE data_dict[k]]

\* redyxlsx.py 279-318: the cells from value_start_idx on, left to right
RECURSIVE ProcessorValueLoop(_, _, _, _, _, _)
ProcessorValueLoop(data_dict, param_name, row, units, ne, j) ==
    IF j >= Len(ne) THEN data_dict
    ELSE ProcessorValueLoop(
             ProcessorStore(data_dict, param_name,
                            ProcessorResolved(param_name, ProcessorParsedCell[ne[j + 1][2]],
                                              ProcessorContextMultiplier(row, units, ne[j + 1][1]))),
             param_name, row, units, ne, j + 1)

\* redyxlsx.py 256-320: no indicator part, or no indicator matching the name:
\* next row
ProcessorMatchRow(data_dict, units, row, ne, split, idx) ==
    IF split.indicator_parts = <<>> \/ idx = 0 THEN data_dict
    ELSE ProcessorValueLoop(data_dict, processor_financial_patterns[idx].name, row, units, ne,
                            split.value_start_idx)

\* redyxlsx.py 253-320, after the scan for units
ProcessorScannedRow(data_dict, units, row, ne) ==
    IF Len(ne) < MinCells THEN [data |-> data_dict, units |-> units]
    ELSE [data |-> ProcessorMatchRow(data_dict, units, row, ne, IndicatorLoop(ne, 0, <<>>),
                                     ProcessorIndicatorOfRow[row]),
          units |-> units]

\* redyxlsx.py 235-320, the body of the loop over rows: [data, units]
ProcessorRowStep(data_dict, units, row) ==
    IF is_table_header(row) \/ AllNaN(row) THEN [data |-> data_dict, units |-> units]
    ELSE ProcessorScannedRow(data_dict, ProcessorScanUnits(units, row, 0), row, non_empty(row))

RECURSIVE ProcessorRowsLoop(_, _)
ProcessorRowsLoop(acc, rows) ==
    IF rows = <<>> THEN acc
    ELSE ProcessorRowsLoop(ProcessorRowStep(acc.data, acc.units, Head(rows)), Tail(rows))

\* redyxlsx.py 230: data = {}
EmptyData == [k \in {} |-> Zero]

\* redyxlsx.py 226-322: BankTablesProcessor.extract_financial_data(df)
extract_financial_data(df) ==
    IF df.rows = <<>> \/ df.columns < MinColumns THEN EmptyData
    ELSE ProcessorRowsLoop([data |-> EmptyData, units |-> [c \in {} |-> One]], df.rows).data

-----------------------------------------------------------------------------
(* Bounds of the aggregator's input                                        *)

MaxTables == 2
MaxRows == 2

\* the rows of all the tables consumed so far
RECURSIVE TotalRows(_)
TotalRows(ts) == IF ts = <<>> THEN 0 ELSE Len(Head(ts).rows) + TotalRows(Tail(ts))

\* line 263: current_units = {}
NoUnits == [c \in {} |-> One]

\* a table is [columns, rows]; these are the tables line 260 passes over: one of
\* a single column (its rows are never read) and one of no row
SkippedTables ==
    {[columns |-> MinColumns - 1, rows |-> <<>>], [columns |-> MinColumns, rows |-> <<>>]}

-----------------------------------------------------------------------------
(* aggregate_financial_data as a state machine: the tables arrive one at a  *)
(* time and the rows of a table one at a time, in input order               *)

InitIdleAggregator ==
    /\ tables = <<>>
    /\ financial_data = DefaultFinancialData
    /\ current_units = NoUnits
    /\ written = {}
    /\ pc = "idle"
InitIdleParse == value = <<>> /\ result = None /\ parse_pc = "idle"
InitIdleCalc == data = ZeroRecord /\ ratios = None /\ calc_pc = "idle"
InitIdleBsi == normalized_scores = None /\ bsi = None
InitIdleNorm == norm_args = None /\ norm_score = None /\ norm_pc = "idle"
InitIdleAccounts == account_tables = None /\ aggregated = None /\ account_pc = "idle"
InitIdleApp ==
    /\ uploaded_files = <<>>
    /\ file_idx = 0
    /\ app_pc = "idle"
    /\ temp_files = {}
    /\ session_data = <<>>
    /\ shown_errors = {}
    /\ progress = 0
InitIdleProcessor ==
    /\ table_rows = <<>>
    /\ table_result = None
    /\ extracted = None
    /\ reaggregated = None
    /\ table_calls = {}

\* lines 26-77: financial_data starts with every key at 0
Init ==
    /\ tables = <<>>
    /\ financial_data = DefaultFinancialData
    /\ current_units = NoUnits
    /\ written = {}
    /\ pc = "tables"
    /\ InitIdleParse
    /\ InitIdleCalc
    /\ InitIdleBsi
    /\ InitIdleNorm
    /\ InitIdleAccounts
    /\ InitIdleApp
    /\ InitIdleProcessor

\* line 260: an empty DataFrame or one of fewer than 2 columns is passed over
SkipTable ==
    /\ pc = "tables"
    /\ Len(tables) < MaxTables
    /\ \E df \in SkippedTables : tables' = Append(tables, df)
    /\ UNCHANGED <<financial_data, current_units, written, pc, value, result, parse_pc,
                   data, ratios, calc_pc,
                   bsi_vars, norm_vars, account_vars, processor_vars, app_vars>>

\* lines 259-263: the next table, not empty and of at least 2 columns
BeginTable ==
    /\ pc = "tables"
    /\ Len(tables) < MaxTables
    /\ TotalRows(tables) < MaxRows
    /\ \E w \in {Len(row) : row \in RowMenu} :
           /\ w >= MinColumns
           /\ tables' = Append(tables, [columns |-> w, rows |-> <<>>])
    /\ current_units' = NoUnits
    /\ pc' = "rows"
    /\ UNCHANGED <<financial_data, written, value, result, parse_pc, data, ratios, calc_pc,
                   bsi_vars, norm_vars, account_vars, processor_vars, app_vars>>

CurrentTable == tables[Len(tables)]

\* lines 266-357: one row of the current table; the first row follows the
\* beginning of the table at once, a table here having at least one row
ProcessRow ==
    /\ pc = "rows"
    /\ TotalRows(tables) < MaxRows
    /\ \E row \in RowMenu :
           /\ Len(row) = CurrentTable.columns
           /\ financial_data' = RowStep(financial_data, current_units, row).fd
           /\ current_units' = RowStep(financial_data, current_units, row).units
           /\ written' = written \cup RowStep(financial_data, current_units, row).stored
           /\ tables' = [tables EXCEPT ![Len(tables)].rows = Append(@, row)]
    /\ UNCHANGED <<pc, value, result, parse_pc, data, ratios, calc_pc,
                   bsi_vars, norm_vars, account_vars, processor_vars, app_vars>>

\* line 266: the loop over the rows of the table ends
EndTable ==
    /\ pc = "rows"
    /\ CurrentTable.rows # <<>>
    /\ pc' = "tables"
    /\ UNCHANGED <<tables, financial_data, current_units, written, value, result, parse_pc,
                   data, ratios, calc_pc,
                   bsi_vars, norm_vars, account_vars, processor_vars, app_vars>>

\* line 359: return financial_data
Return ==
    /\ pc = "tables"
    /\ pc' = "done"
    /\ UNCHANGED <<tables, financial_data, current_units, written, value, result, parse_pc,
                   data, ratios, calc_pc,
                   bsi_vars, norm_vars, account_vars, processor_vars, app_vars>>

Next == SkipTable \/ BeginTable \/ ProcessRow \/ EndTable \/ Return

Spec == Init /\ [][Next]_vars

-----------------------------------------------------------------------------
(* The two parsing functions on their own                                   *)

MaxStrLen == 4

\* '1', '5', space, comma, minus, point
ParseAlphabet == {49, 53, 32, 44, 45, 46}

\* '1 234,56'
S_1_234_56 == <<49, 32, 50, 51, 52, 44, 53, 54>>
\* '1234,5678'
S_1234_5678 == <<49, 50, 51, 52, 44, 53, 54, 55, 56>>
\* '98,1 МЛРД РУБ'
S_98_1_MlrdRub == <<57, 56, 44, 49, 32, 1052, 1051, 1056, 1044, 32, 1056, 1059, 1041>>
\* '12, 34'
S_12_34 == <<49, 50, 44, 32, 51, 52>>
\* em dash, en dash
EmDash == <<8212>>
EnDash == <<8211>>

\* the texts parsed: every text of at most MaxStrLen characters of the alphabet,
\* and the texts above
ParseInputs ==
    UNION {[1..k -> ParseAlphabet] : k \in 0..MaxStrLen}
        \cup {S_1_234_56, S_1234_5678, S_98_1_MlrdRub, V_98_1_mlrd, V_1234_5_MlrdRub,
              S_12_34, EmDash, EnDash}

InitParse ==
    /\ InitIdleAggregator
    /\ InitIdleCalc
    /\ InitIdleBsi
    /\ InitIdleNorm
    /\ InitIdleAccounts
    /\ InitIdleApp
    /\ InitIdleProcessor
    /\ value \in ParseInputs
    /\ result = None
    /\ parse_pc = "call"

\* result = parse_russian_number(value)
ParseRussianNumber ==
    /\ parse_pc = "call"
    /\ result' = parse_russian_number(value)
    /\ parse_pc' = "parse_russian_number"
    /\ UNCHANGED <<tables, financial_data, current_units, written, pc, value, data, ratios,
                   calc_pc,
                   bsi_vars, norm_vars, account_vars, processor_vars, app_vars>>

\* result = parse_number_with_unit(value)
ParseNumberWithUnit ==
    /\ parse_pc = "call"
    /\ result' = parse_number_with_unit(Str(value))
    /\ parse_pc' = "parse_number_with_unit"
    /\ UNCHANGED <<tables, financial_data, current_units, written, pc, value, data, ratios,
                   calc_pc,
                   bsi_vars, norm_vars, account_vars, processor_vars, app_vars>>

NextParse == ParseRussianNumber \/ ParseNumberWithUnit

SpecParse == InitParse /\ [][NextParse]_vars

-----------------------------------------------------------------------------
(* The calculator as a state machine                                        *)

\* after BankingRatiosCalculator(financial_data)
InitCalc ==
    /\ InitIdleAggregator
    /\ InitIdleParse
    /\ InitIdleBsi
    /\ InitIdleNorm
    /\ InitIdleAccounts
    /\ InitIdleApp
    /\ InitIdleProcessor
    /\ data \in CalcRecords
    /\ ratios = None
    /\ calc_pc = "ready"

\* ratios = calculator.calculate_all_ratios()
CalculateAllRatios ==
    /\ calc_pc = "ready"
    /\ ratios' = calculate_all_ratios(BankingRatiosCalculator(data))
    /\ calc_pc' = "calculated"
    /\ UNCHANGED <<tables, financial_data, current_units, written, pc, value, result,
                   parse_pc, data,
                   bsi_vars, norm_vars, account_vars, processor_vars, app_vars>>

\* bsi_score, bsi_interpretation = calculator.calculate_bsi(), before or after
\* calculate_all_ratios; normalized_scores is the local dictionary of the call
CalculateBsi ==
    /\ calc_pc \in {"ready", "calculated"}
    /\ \E all_ratios \in {calculate_all_ratios(BankingRatiosCalculator(data))} :
           normalized_scores' = ScoresOfRatios(all_ratios)
    /\ bsi' = ComposeScores(normalized_scores')
    /\ calc_pc' = "bsi"
    /\ UNCHANGED <<tables, financial_data, current_units, written, pc, value, result,
                   parse_pc, data, ratios,
                   norm_vars, account_vars, processor_vars, app_vars>>

NextCalc == CalculateAllRatios \/ CalculateBsi

SpecCalc == InitCalc /\ [][NextCalc]_vars

-----------------------------------------------------------------------------
(* The composition of the index from a dictionary of ratios                 *)
(* (calculate_bsi from line 298 on; the dictionary is the one line 285      *)
(* receives, drawn here from the thresholds themselves and values around    *)
(* them, also where no single record produces it)                           *)

\* the values a ratio takes: zero, its two thresholds, a value off the scale
RatioValueMenu(ratio_name) ==
    {FloatZero, RATIOS_THRESHOLDS[ratio_name][1], RATIOS_THRESHOLDS[ratio_name][2]}
        \cup (IF ratio_name = "problem_loans_ratio" THEN {Float(10, 100)} ELSE {})

\* the tier the calculator gives a value of a ratio
TierOf(ratio_name, v) ==
    CASE ratio_name = "capital_adequacy" ->
             CapitalAdequacyTier(v, RATIOS_THRESHOLDS[ratio_name][1],
                                 RATIOS_THRESHOLDS[ratio_name][2])
      [] ratio_name = "instant_liquidity" ->
             InstantLiquidityTier(v, RATIOS_THRESHOLDS[ratio_name][1],
                                  RATIOS_THRESHOLDS[ratio_name][2])
      [] ratio_name = "current_liquidity" ->
             CurrentLiquidityTier(v, RATIOS_THRESHOLDS[ratio_name][1],
                                  RATIOS_THRESHOLDS[ratio_name][2])
      [] ratio_name = "roe" ->
             RoeTier(v, RATIOS_THRESHOLDS[ratio_name][1], RATIOS_THRESHOLDS[ratio_name][2])
      [] ratio_name = "roa" ->
             RoaTier(v, RATIOS_THRESHOLDS[ratio_name][1], RATIOS_THRESHOLDS[ratio_name][2])
      [] ratio_name = "nim" ->
             NimTier(v, RATIOS_THRESHOLDS[ratio_name][1], RATIOS_THRESHOLDS[ratio_name][2])
      [] OTHER ->
             ProblemLoansTier(v, RATIOS_THRESHOLDS[ratio_name][1],
                              RATIOS_THRESHOLDS[ratio_name][2])

RatioEntries(ratio_name) ==
    {TierOf(ratio_name, v) : v \in RatioValueMenu(ratio_name)}

RatioDictionaries ==
    [capital_adequacy : RatioEntries("capital_adequacy"),
     instant_liquidity : RatioEntries("instant_liquidity"),
     current_liquidity : RatioEntries("current_liquidity"),
     roe : RatioEntries("roe"),
     roa : RatioEntries("roa"),
     nim : RatioEntries("nim"),
     problem_loans_ratio : RatioEntries("problem_loans_ratio")]

InitBsi ==
    /\ InitIdleAggregator
    /\ InitIdleParse
    /\ InitIdleBsi
    /\ InitIdleNorm
    /\ InitIdleAccounts
    /\ InitIdleApp
    /\ InitIdleProcessor
    /\ data = None
    /\ ratios \in RatioDictionaries
    /\ calc_pc = "all_ratios"

\* lines 298-331 for the dictionary all_ratios
ComposeFromRatios ==
    /\ calc_pc = "all_ratios"
    /\ normalized_scores' = ScoresOfRatios(ratios)
    /\ bsi' = ComposeScores(normalized_scores')
    /\ calc_pc' = "bsi"
    /\ UNCHANGED <<tables, financial_data, current_units, written, pc, value, result,
                   parse_pc, data, ratios,
                   norm_vars, account_vars, processor_vars, app_vars>>

NextBsi == ComposeFromRatios

SpecBsi == InitBsi /\ [][NextBsi]_vars

-----------------------------------------------------------------------------
(* normalize_score on its own                                               *)

\* the values and the thresholds it is called with, in hundredths
NormValues == {Float(n, 100) : n \in {-10, 0, 1, 2, 3, 4, 5, 8, 10, 12, 15, 25, 100, 150}}
NormThresholds == {Float(n, 100) : n \in {0, 2, 5, 8, 12, 100, 150}}

NormCalls ==
    [val : NormValues \cup {FloatNaN, None}, min_thr : NormThresholds,
     max_thr : NormThresholds, reverse : BOOLEAN]

InitNormalize ==
    /\ InitIdleAggregator
    /\ InitIdleParse
    /\ InitIdleCalc
    /\ InitIdleBsi
    /\ InitIdleAccounts
    /\ InitIdleApp
    /\ InitIdleProcessor
    /\ norm_args \in NormCalls
    /\ norm_score = None
    /\ norm_pc = "call"

\* norm_score = normalize_score(value, min_thr, max_thr, reverse)
NormalizeScore ==
    /\ norm_pc = "call"
    /\ norm_score' =
           normalize_score(norm_args.val, norm_args.min_thr, norm_args.max_thr,
                           norm_args.reverse)
    /\ norm_pc' = "returned"
    /\ UNCHANGED <<norm_args, tables, financial_data, current_units, written, pc, value,
                   result, parse_pc, data, ratios, calc_pc, bsi_vars, account_vars,
                   processor_vars, app_vars>>

NextNormalize == NormalizeScore

SpecNormalize == InitNormalize /\ [][NextNormalize]_vars
-----------------------------------------------------------------------------
(* The account-code path as a state machine                                 *)

\* the rows of a table at most
MaxAccounts == 2

AccountRow(digits, amount) == [account_code |-> Code(digits), amount |-> amount]

\* balance-sheet rows: assets by their first digit and by the list, cash, a
\* loan, liabilities, an account of neither side, an amount that is missing
BalanceRowMenu ==
    {AccountRow(<<1, 0, 1, 0, 1>>, Float(1, 10)),
     AccountRow(<<1, 1, 0, 0, 0>>, Float(2, 10)),
     AccountRow(<<1, 1, 6, 0, 1>>, Float(1005, 10)),
     AccountRow(<<2, 1, 0, 0, 0>>, Float(7, 10)),
     AccountRow(<<2, 0, 2, 0, 2>>, Float(-725, 100)),
     AccountRow(<<3, 0, 1, 0, 1>>, Float(50, 1)),
     AccountRow(<<1, 0, 2, 0, 2>>, FloatNaN)}

\* income-statement rows: interest income and expense, commission income, an
\* account of no list
IncomeRowMenu ==
    {AccountRow(<<7, 0, 6, 0, 1>>, Float(8, 1)),
     AccountRow(<<7, 0, 6, 0, 2>>, Float(3, 10)),
     AccountRow(<<7, 0, 7, 0, 1>>, Float(1, 10)),
     AccountRow(<<7, 1, 0, 0, 1>>, Float(-2, 1))}

\* the frames of at most MaxAccounts rows of a menu; the account codes of a
\* frame are the keys of a dictionary, no two rows have the same
Frames(menu) ==
    UNION {{rows \in [1..n -> menu] :
               \A i, j \in 1..n : rows[i].account_code = rows[j].account_code => i = j} :
           n \in 0..MaxAccounts}

\* the dictionary of the tables that were extracted
TablesOf(has_bs, bs_df, has_is, is_df) ==
    (IF has_bs THEN ("balance_sheet" :> bs_df) ELSE EmptyDict)
        @@ (IF has_is THEN ("income_statement" :> is_df) ELSE EmptyDict)

InitAccounts ==
    /\ InitIdleAggregator
    /\ InitIdleParse
    /\ InitIdleCalc
    /\ InitIdleBsi
    /\ InitIdleNorm
    /\ InitIdleProcessor
    /\ InitIdleApp
    /\ \E has_bs \in BOOLEAN, bs_df \in Frames(BalanceRowMenu),
          has_is \in BOOLEAN, is_df \in Frames(IncomeRowMenu) :
           account_tables = TablesOf(has_bs, bs_df, has_is, is_df)
    /\ aggregated = None
    /\ account_pc = "call"

\* aggregated = aggregate_financial_data(tables)
AggregateAccounts ==
    /\ account_pc = "call"
    /\ aggregated' = parser_aggregate_financial_data(account_tables)
    /\ account_pc' = "returned"
    /\ UNCHANGED <<account_tables, tables, financial_data, current_units, written, pc,
                   value, result, parse_pc, data, ratios, calc_pc, bsi_vars, norm_vars,
                   processor_vars, app_vars>>

NextAccounts == AggregateAccounts

SpecAccounts == InitAccounts /\ [][NextAccounts]_vars
-----------------------------------------------------------------------------
(* aggregate_financial_data on tables of absolute amounts: the state machine *)
(* of Spec, its rows drawn from AmountRowMenu                                *)

\* lines 266-357: one row of the current table
ProcessAmountRow ==
    /\ pc = "rows"
    /\ TotalRows(tables) < MaxRows
    /\ \E row \in AmountRowMenu :
           /\ Len(row) = CurrentTable.columns
           /\ \E step \in {RowStep(financial_data, current_units, row)} :
                  /\ financial_data' = step.fd
                  /\ current_units' = step.units
                  /\ written' = written \cup step.stored
           /\ tables' = [tables EXCEPT ![Len(tables)].rows = Append(@, row)]
    /\ UNCHANGED <<pc, value, result, parse_pc, data, ratios, calc_pc,
                   bsi_vars, norm_vars, account_vars, processor_vars, app_vars>>

NextAmounts == SkipTable \/ BeginTable \/ ProcessAmountRow \/ EndTable \/ Return

SpecAmounts == Init /\ [][NextAmounts]_vars

-----------------------------------------------------------------------------
(* aggregate_financial_data as a function of the list of tables             *)

\* lines 266-357: the rows of a table in order, from acc = [fd, units]; the rows
\* are taken half by half, the first half done before the second is begun
RECURSIVE RowsLoop(_, _)
RowsLoop(acc, rows) ==
    IF rows = <<>> THEN acc
    ELSE IF Len(rows) = 1 THEN RowStep(acc.fd, acc.units, rows[1])
    ELSE CHOOSE after \in
             {RowsLoop(mid, SubSeq(rows, Len(rows) \div 2 + 1, Len(rows))) :
                 mid \in {RowsLoop(acc, SubSeq(rows, 1, Len(rows) \div 2))}} : TRUE

\* lines 259-263: a table that is empty or has fewer than 2 columns is passed
\* over, the units start anew with every other table
TableStep(fd, df) ==
    IF df.rows = <<>> \/ df.columns < MinColumns THEN fd
    ELSE RowsLoop([fd |-> fd, units |-> NoUnits], df.rows).fd

RECURSIVE TablesLoop(_, _)
TablesLoop(fd, tables_list) ==
    IF tables_list = <<>> THEN fd
    ELSE TablesLoop(TableStep(fd, Head(tables_list)), Tail(tables_list))

\* aggregate_financial_data(tables_list)
aggregate_financial_data(tables_list) == TablesLoop(DefaultFinancialData, tables_list)

\* pd.DataFrame(list(record.items())): one row (key, value) for every key of the
\* record, in the order of the dictionary; the column of values is of floats
PseudoTable(record) ==
    [columns |-> 2,
     rows |-> [i \in 1..Len(KeyOrder) |->
                  <<Str(KeyText[KeyOrder[i]]), Num(record[KeyOrder[i]])>>]]

-----------------------------------------------------------------------------
(* One table given to aggregate_financial_data, and the record it returns   *)
(* given back to aggregate_financial_data as a table of (key, value) rows   *)

MaxTableRows == 2

\* the tables of up to MaxTableRows rows of one width
TableMenu ==
    UNION {{t \in [1..n -> TableRowMenu] : \A i \in 1..n : Len(t[i]) = Len(t[1])} :
              n \in 1..MaxTableRows}

InitTable ==
    /\ table_rows \in TableMenu
    /\ table_result = None
    /\ extracted = None
    /\ reaggregated = None
    /\ table_calls = {}
    /\ InitIdleAggregator
    /\ InitIdleParse
    /\ InitIdleCalc
    /\ InitIdleBsi
    /\ InitIdleNorm
    /\ InitIdleAccounts
    /\ InitIdleApp

\* aggregate_financial_data([table])
AggregateTable ==
    /\ "aggregate" \notin table_calls
    /\ table_result' =
           aggregate_financial_data(<<[columns |-> Len(table_rows[1]), rows |-> table_rows]>>)
    /\ table_calls' = table_calls \cup {"aggregate"}
    /\ UNCHANGED <<tables, financial_data, current_units, written, pc, value, result,
                   parse_pc, data, ratios, calc_pc, bsi_vars, norm_vars, account_vars, app_vars,
                   table_rows, extracted, reaggregated>>

\* aggregate_financial_data([pd.DataFrame(list(record.items()))]) on the record
\* the first call returned
Reaggregate ==
    /\ "aggregate" \in table_calls
    /\ "reaggregate" \notin table_calls
    /\ reaggregated' = aggregate_financial_data(<<PseudoTable(table_result)>>)
    /\ table_calls' = table_calls \cup {"reaggregate"}
    /\ UNCHANGED <<tables, financial_data, current_units, written, pc, value, result,
                   parse_pc, data, ratios, calc_pc, bsi_vars, norm_vars, account_vars, app_vars,
                   table_rows, table_result, extracted>>

\* BankTablesProcessor.extract_financial_data(table)
ExtractTable ==
    /\ "extract" \notin table_calls
    /\ extracted' = extract_financial_data([columns |-> Len(table_rows[1]), rows |-> table_rows])
    /\ table_calls' = table_calls \cup {"extract"}
    /\ UNCHANGED <<tables, financial_data, current_units, written, pc, value, result,
                   parse_pc, data, ratios, calc_pc, bsi_vars, norm_vars, account_vars, app_vars,
                   table_rows, table_result, reaggregated>>

NextTable == AggregateTable \/ Reaggregate \/ ExtractTable

SpecTable == InitTable /\ [][NextTable]_vars

-----------------------------------------------------------------------------
(* aggregate_financial_data on tables with units in their columns: the state *)
(* machine of Spec, its rows drawn from UnitRowMenu                         *)

\* lines 259-263: the next table, not empty and of at least 2 columns
BeginUnitTable ==
    /\ pc = "tables"
    /\ Len(tables) < MaxTables
    /\ TotalRows(tables) < MaxRows
    /\ \E w \in {Len(row) : row \in UnitRowMenu} :
           /\ w >= MinColumns
           /\ tables' = Append(tables, [columns |-> w, rows |-> <<>>])
    /\ current_units' = NoUnits
    /\ pc' = "rows"
    /\ UNCHANGED <<financial_data, written, value, result, parse_pc, data, ratios, calc_pc,
                   bsi_vars, norm_vars, account_vars, processor_vars, app_vars>>

\* lines 266-357: one row of the current table
ProcessUnitRow ==
    /\ pc = "rows"
    /\ TotalRows(tables) < MaxRows
    /\ \E row \in UnitRowMenu :
           /\ Len(row) = CurrentTable.columns
           /\ \E step \in {RowStep(financial_data, current_units, row)} :
                  /\ financial_data' = step.fd
                  /\ current_units' = step.units
                  /\ written' = written \cup step.stored
           /\ tables' = [tables EXCEPT ![Len(tables)].rows = Append(@, row)]
    /\ UNCHANGED <<pc, value, result, parse_pc, data, ratios, calc_pc,
                   bsi_vars, norm_vars, account_vars, processor_vars, app_vars>>

NextUnits == SkipTable \/ BeginUnitTable \/ ProcessUnitRow \/ EndTable \/ Return

SpecUnits == Init /\ [][NextUnits]_vars

-----------------------------------------------------------------------------
(* The pipeline of the platform for one file (banking_analysis_platform/    *)
(* app.py, lines 76-86)                                                     *)

\* line 86: bsi = calculate_bsi(financial_data, ratios), after line 83; an
\* exception raised by calculate_all_ratios leaves the try block before it
PlatformBsi ==
    /\ calc_pc = "calculated"
    /\ ratios # ZeroDivisionError
    /\ normalized_scores' = PlatformScores(platform_weights, ratios)
    /\ bsi' = platform_calculate_bsi(ratios)
    /\ calc_pc' = "platform_bsi"
    /\ UNCHANGED <<tables, financial_data, current_units, written, pc, value, result,
                   parse_pc, data, ratios,
                   norm_vars, account_vars, processor_vars, app_vars>>

\* lines 82-86 on the record BankingRatiosCalculator is given
NextPlatform == CalculateAllRatios \/ PlatformBsi

SpecPlatform == InitCalc /\ [][NextPlatform]_vars

\* the tables of one or two rows of PipelineRowMenu
PipelineMenu == UNION {[1..n -> PipelineRowMenu] : n \in 1..MaxTableRows}

\* line 63: tables = extract_tables_from_pdf(...), not empty (line 65)
InitPipeline ==
    /\ table_rows \in PipelineMenu
    /\ table_result = None
    /\ extracted = None
    /\ reaggregated = None
    /\ table_calls = {}
    /\ InitIdleAggregator
    /\ InitIdleParse
    /\ InitIdleCalc
    /\ InitIdleBsi
    /\ InitIdleNorm
    /\ InitIdleAccounts
    /\ InitIdleApp

\* lines 82-83: calculator = BankingRatiosCalculator(financial_data);
\* ratios = calculator.calculate_all_ratios(), on the record of line 77
RatiosOfAggregated ==
    /\ "aggregate" \in table_calls
    /\ calc_pc = "idle"
    /\ ratios' = calculate_all_ratios(CalculatorOfAggregated(table_result))
    /\ calc_pc' = "calculated"
    /\ UNCHANGED <<tables, financial_data, current_units, written, pc, value, result,
                   parse_pc, data,
                   bsi_vars, norm_vars, account_vars, processor_vars, app_vars>>

NextPipeline == AggregateTable \/ RatiosOfAggregated \/ PlatformBsi

SpecPipeline == InitPipeline /\ [][NextPipeline]_vars
-----------------------------------------------------------------------------
(* The classification of a label that is a declared synonym                 *)
(* (data_aggregator.py, lines 284-308)                                      *)

\* the pattern has no operator of the regular expressions: it is a plain text
IsLiteral(pattern) ==
    \A t \in 1..Len(pattern) : pattern[t].k = "lit" /\ pattern[t].lo = 1 /\ pattern[t].hi = 1

PatternText(pattern) == [t \in 1..Len(pattern) |-> pattern[t].c]

\* lines 80-146: the plain synonyms, each with the index of the indicator that
\* declares it
LiteralSynonyms ==
    UNION {{[indicator |-> i, text |-> PatternText(financial_patterns[i].patterns[j])] :
               j \in {j \in 1..Len(financial_patterns[i].patterns) :
                         IsLiteral(financial_patterns[i].patterns[j])}} :
              i \in 1..Len(financial_patterns)}

\* the row [synonym, '15,5']
InitSynonyms ==
    /\ InitIdleAggregator
    /\ InitIdleCalc
    /\ InitIdleBsi
    /\ InitIdleNorm
    /\ InitIdleAccounts
    /\ InitIdleApp
    /\ InitIdleProcessor
    /\ value \in LiteralSynonyms
    /\ result = None
    /\ parse_pc = "label"

\* lines 284-308: the label of the row is joined and lower-cased, and searched
\* for the patterns of the indicators in their order; result is the index of the
\* indicator found, 0 when there is none
MatchLabel ==
    /\ parse_pc = "label"
    /\ \E indicator_name \in {IndicatorName(<<Str(value.text), Str(V_15_5)>>)} :
           result' = match_indicator(indicator_name)
    /\ parse_pc' = "matched"
    /\ UNCHANGED <<tables, financial_data, current_units, written, pc, value, data, ratios,
                   calc_pc,
                   bsi_vars, norm_vars, account_vars, processor_vars, app_vars>>

NextSynonyms == MatchLabel

SpecSynonyms == InitSynonyms /\ [][NextSynonyms]_vars
-----------------------------------------------------------------------------
(* The upload loop of the platform (banking_analysis_platform/app.py,       *)
(* lines 48-106). Of a file the model keeps what decides the path through   *)
(* the loop: whether extract_tables_from_pdf returns tables (it catches its *)
(* own exceptions and then returns the empty list, pdf_processor.py 75-79), *)
(* the bank name extract_metadata resolves, and the step of the try block   *)
(* that raises, if one does.                                                *)

MaxFiles == 2

\* metadata_extractor.py line 84: the name returned when none is found,
\* 'Неопределённая организация'
UndeterminedName == "Neopredelyonnaya organizatsiya"

BankNames == {"Bank", UndeterminedName}

\* the steps of the try block after the tables are there (lines 72-86)
PipelineSteps == {"metadata", "aggregate", "ratios", "bsi"}

FileMenu ==
    {[tables |-> FALSE, bank_name |-> UndeterminedName, raises |-> "none"]}
        \cup {[tables |-> TRUE, bank_name |-> name, raises |-> "none"] : name \in BankNames}
        \cup {[tables |-> TRUE, bank_name |-> "Bank", raises |-> step] : step \in PipelineSteps}

\* lines 40-48: the files of the uploader, not empty
InitUpload ==
    /\ InitIdleAggregator
    /\ InitIdleParse
    /\ InitIdleCalc
    /\ InitIdleBsi
    /\ InitIdleNorm
    /\ InitIdleAccounts
    /\ InitIdleProcessor
    /\ uploaded_files \in UNION {[1..n -> FileMenu] : n \in 1..MaxFiles}
    /\ file_idx = 0
    /\ app_pc = "loop"
    /\ temp_files = {}
    /\ session_data = <<>>
    /\ shown_errors = {}
    /\ progress = 0

\* the file of the current iteration and its number
CurrentNumber == file_idx + 1
CurrentFile == uploaded_files[CurrentNumber]

AppFrame ==
    UNCHANGED <<tables, financial_data, current_units, written, pc, value, result, parse_pc,
                data, ratios, calc_pc, bsi_vars, norm_vars, account_vars, processor_vars,
                uploaded_files>>

\* lines 53-59: the next file is written to a temporary file that stays
SaveTempFile ==
    /\ app_pc = "loop"
    /\ file_idx < Len(uploaded_files)
    /\ temp_files' = temp_files \cup {CurrentNumber}
    /\ app_pc' = "try"
    /\ UNCHANGED <<file_idx, session_data, shown_errors, progress>>
    /\ AppFrame

\* lines 63-68: no tables: the error is shown and the iteration is left by
\* continue, through the finally clause
ExtractTables ==
    /\ app_pc = "try"
    /\ IF CurrentFile.tables
       THEN app_pc' = "metadata" /\ shown_errors' = shown_errors
       ELSE app_pc' = "continue" /\ shown_errors' = shown_errors \cup {CurrentNumber}
    /\ UNCHANGED <<file_idx, temp_files, session_data, progress>>
    /\ AppFrame

\* a step of the try block: it raises, and the except clause is next, or it
\* returns
TryStep(step, next) ==
    /\ app_pc = step
    /\ app_pc' = IF CurrentFile.raises = step THEN "except" ELSE next
    /\ UNCHANGED <<file_idx, temp_files, session_data, shown_errors, progress>>
    /\ AppFrame

\* lines 72-74
ExtractMetadata == TryStep("metadata", "aggregate")

\* lines 77-79
AggregateFinancialData == TryStep("aggregate", "ratios")

\* lines 82-83
CalculateRatios == TryStep("ratios", "bsi")

\* line 86
CalculatePlatformBsi == TryStep("bsi", "store")

\* line 89: session_data[bank_name] = {...}
StoreResult(store, bank_name, entry) ==
    [k \in DOMAIN store \cup {bank_name} |-> IF k = bank_name THEN entry ELSE store[k]]

\* lines 89-95; of the result the number of the file it came from is kept
StoreInSession ==
    /\ app_pc = "store"
    /\ session_data' = StoreResult(session_data, CurrentFile.bank_name, [file |-> CurrentNumber])
    /\ app_pc' = "finally"
    /\ UNCHANGED <<file_idx, temp_files, shown_errors, progress>>
    /\ AppFrame

\* lines 97-99
ExceptClause ==
    /\ app_pc = "except"
    /\ shown_errors' = shown_errors \cup {CurrentNumber}
    /\ app_pc' = "finally"
    /\ UNCHANGED <<file_idx, temp_files, session_data, progress>>
    /\ AppFrame

\* a variant of Unlink that leaves the file
UnlinkNothing(files, number) == files

\* line 102: Path(temp_path).unlink(missing_ok=True)
Unlink(files, number) == files \ {number}

\* lines 100-102, then line 104 - or, after continue, the next iteration at once
FinallyClause ==
    /\ app_pc \in {"finally", "continue"}
    /\ temp_files' = Unlink(temp_files, CurrentNumber)
    /\ IF app_pc = "continue"
       THEN app_pc' = "loop" /\ file_idx' = file_idx + 1
       ELSE app_pc' = "progress" /\ file_idx' = file_idx
    /\ UNCHANGED <<session_data, shown_errors, progress>>
    /\ AppFrame

\* line 104: progress_bar.progress((idx + 1) / len(uploaded_files))
ShowProgress ==
    /\ app_pc = "progress"
    /\ progress' = CurrentNumber
    /\ file_idx' = file_idx + 1
    /\ app_pc' = "loop"
    /\ UNCHANGED <<temp_files, session_data, shown_errors>>
    /\ AppFrame

\* line 106, after the last file
FinishLoop ==
    /\ app_pc = "loop"
    /\ file_idx = Len(uploaded_files)
    /\ app_pc' = "finished"
    /\ UNCHANGED <<file_idx, temp_files, session_data, shown_errors, progress>>
    /\ AppFrame

NextUpload ==
    \/ SaveTempFile
    \/ ExtractTables
    \/ ExtractMetadata
    \/ AggregateFinancialData
    \/ CalculateRatios
    \/ CalculatePlatformBsi
    \/ StoreInSession
    \/ ExceptClause
    \/ FinallyClause
    \/ ShowProgress
    \/ FinishLoop

SpecUpload == InitUpload /\ [][NextUpload]_vars

\* the loop runs in one thread and every call in it returns or raises: a step
\* that can be taken is taken
SpecUploadFair == SpecUpload /\ WF_vars(NextUpload)
-----------------------------------------------------------------------------
(* Properties of the aggregator (specification Spec)                        *)

\* the table of one row
OneRowTable(row) == [columns |-> Len(row), rows |-> <<row>>]

SetMax(S) == CHOOSE x \in S : \A y \in S : y <= x
SetMin(S) == CHOOSE x \in S : \A y \in S : x <= y

\* the step appends row to the current table: the row has been processed
RowProcessed(row) ==
    /\ pc = "rows"
    /\ tables' = [tables EXCEPT ![Len(tables)].rows = Append(@, row)]

\* ['Итого активов', '1 234,5 МЛРД РУБ']
TotalAssetsRow == <<Str(ItogoAktivov), Str(V_1234_5_MlrdRub)>>

(* C1: aggregating the single table whose only data row is                  *)
(* ['Итого активов', '1 234,5 МЛРД РУБ'] returns total_assets = 1234.5e9.   *)
C1_TotalAssetsInBillions ==
    (pc = "done" /\ tables = <<OneRowTable(TotalAssetsRow)>>)
        => financial_data.total_assets = Dec(12345, 8)

(* C2: the record always has exactly the keys it was initialised with, and  *)
(* every key no value was stored under is 0; on the empty list of tables     *)
(* the function returns, with every key 0.                                   *)
C2_CanonicalKeysZeroDefault ==
    /\ DOMAIN financial_data = DOMAIN DefaultFinancialData
    /\ \A k \in DOMAIN financial_data : k \notin written => financial_data[k] = Zero
    /\ tables = <<>> => \A k \in DOMAIN financial_data : financial_data[k] = Zero

C2_EmptyListReturned ==
    /\ pc = "done"
    /\ tables = <<>>
    /\ DOMAIN financial_data = DOMAIN DefaultFinancialData
    /\ \A k \in DOMAIN financial_data : financial_data[k] = Zero

\* the row reaches the search for an indicator and one is found
MatchedRow(row) ==
    /\ ~HeaderRow[row]
    /\ ~AllNaN(row)
    /\ Len(non_empty(row)) >= MinCells
    /\ IndicatorLoop(non_empty(row), 0, <<>>).indicator_parts # <<>>
    /\ IndicatorOfRow[row] # 0

\* the indicator of a matched row
ParamOfRow(row) == financial_patterns[IndicatorOfRow[row]].name

\* the positions in non_empty(row) of the cells values are read from
ValueCells(row) ==
    IndicatorLoop(non_empty(row), 0, <<>>).value_start_idx .. (Len(non_empty(row)) - 1)

\* cell j of non_empty(row) holds a number
Parsable(row, j) == ParsedCell[non_empty(row)[j + 1][2]].num # None

\* cell j holds a number above 100 and the effective multiplier, inline times
\* contextual, is 1
Over100NoUnit(row, units, j) ==
    /\ Parsable(row, j)
    /\ DecGt(ParsedCell[non_empty(row)[j + 1][2]].num, Dec(100, 0))
    /\ DecMul(ParsedCell[non_empty(row)[j + 1][2]].multiplier,
              ContextMultiplier(row, units, non_empty(row)[j + 1][1])) = One

\* the cells of the row that hold a number and are not discarded
KeptCells(row, units) ==
    {j \in ValueCells(row) : Parsable(row, j) /\ ~Over100NoUnit(row, units, j)}

(* C3: in a row of a percentage-family indicator, a value cell whose number  *)
(* is above 100 with effective multiplier 1 is discarded: after the row the  *)
(* indicator holds the number of the last cell that was not discarded, and   *)
(* the value it had before the row when there is no such cell.               *)
C3_ImplausiblePercentDiscarded ==
    [][\A row \in RowMenu :
          (RowProcessed(row) /\ MatchedRow(row) /\ ParamOfRow(row) \in PercentageIndicators)
              => IF KeptCells(row, current_units') = {}
                 THEN financial_data'[ParamOfRow(row)] = financial_data[ParamOfRow(row)]
                 ELSE financial_data'[ParamOfRow(row)] =
                          ParsedCell[non_empty(row)[SetMax(KeptCells(row, current_units')) + 1][2]].num]_vars

\* ['ROE (%)', '120']
Roe120Row == <<Str(RoePercent), Str(V_120)>>

C3_Roe120LeftUnset ==
    /\ pc = "done"
    /\ tables = <<OneRowTable(Roe120Row)>>
    /\ MatchedRow(Roe120Row)
    /\ ParamOfRow(Roe120Row) = "roe"
    /\ Over100NoUnit(Roe120Row, current_units, 1)
    /\ financial_data.roe = Zero
    /\ "roe" \notin written

\* the indicators one of whose patterns is found in the name
MatchingIndicators(indicator_name) ==
    {i \in 1..Len(financial_patterns) :
        \E p \in 1..Len(financial_patterns[i].patterns) :
            re_search(financial_patterns[i].patterns[p], indicator_name, TRUE)}

\* for every row of the menu (computed once)
MatchingOfRow == [row \in RowMenu |-> MatchingIndicators(IndicatorName(row))]

(* C6: a row changes the record at most under the first indicator, in        *)
(* declaration order, one of whose patterns is found in the row's label,     *)
(* also when later indicators match it too; a row whose label no indicator   *)
(* matches changes nothing.                                                  *)
C6_FirstMatchOnly ==
    [][\A row \in RowMenu :
          RowProcessed(row)
              => IF MatchingOfRow[row] = {}
                 THEN financial_data' = financial_data /\ written' = written
                 ELSE /\ written' \subseteq
                             written \cup {financial_patterns[SetMin(MatchingOfRow[row])].name}
                      /\ \A k \in DOMAIN financial_data :
                             k # financial_patterns[SetMin(MatchingOfRow[row])].name
                                 => financial_data'[k] = financial_data[k]]_vars

\* ['Рентабельность чистых активов', '15,5']
NetAssetsReturnRow == <<Str(RentChistyhAktivov), Str(V_15_5)>>

C6_FirstOfTwoWritten ==
    /\ pc = "done"
    /\ tables = <<OneRowTable(NetAssetsReturnRow)>>
    /\ Cardinality(MatchingOfRow[NetAssetsReturnRow]) >= 2
    /\ written = {financial_patterns[SetMin(MatchingOfRow[NetAssetsReturnRow])].name}
    /\ financial_data[financial_patterns[SetMin(MatchingOfRow[NetAssetsReturnRow])].name]
           = Dec(155, -1)

\* the rows of one table aggregated on their own, from the defaults
RECURSIVE TableAlone(_, _, _, _)
TableAloneNext(rows, step, stored) ==
    TableAlone(Tail(rows), step.fd, step.units, stored \cup step.stored)
TableAlone(rows, fd, units, stored) ==
    IF rows = <<>> THEN [fd |-> fd, stored |-> stored]
    ELSE TableAloneNext(rows, RowStep(fd, units, Head(rows)), stored)

TableResults ==
    [t \in 1..Len(tables) |-> TableAlone(tables[t].rows, DefaultFinancialData, NoUnits, {})]

\* the tables, by number, that resolve key k
ResolvedIn(res, k) == {t \in DOMAIN res : k \in res[t].stored}

(* C7: tables are processed in input order: in the returned record every     *)
(* indicator holds the value of the latest table that resolves it - so the   *)
(* value of an earlier table when no later one resolves it - and 0 when no   *)
(* table does.                                                               *)
C7_LatestTableWins ==
    pc = "done"
        => \E res \in {TableResults} :
               \A k \in DOMAIN financial_data :
                   IF ResolvedIn(res, k) = {} THEN financial_data[k] = Zero
                   ELSE financial_data[k] = res[SetMax(ResolvedIn(res, k))].fd[k]

C7_SecondTableOverwrites ==
    /\ pc = "done"
    /\ Len(tables) = 2
    /\ \E res \in {TableResults} :
           \E k \in DOMAIN financial_data :
               /\ ResolvedIn(res, k) = {1, 2}
               /\ res[1].fd[k] # res[2].fd[k]
               /\ financial_data[k] = res[2].fd[k]

-----------------------------------------------------------------------------
(* Properties of the parsing functions (specification SpecParse)            *)

(* C4: parse_number_with_unit on '98,1 МЛРД РУБ' returns the number 98.1      *)
(* with the multiplier 1e9.                                                  *)
C4_NumberAndUnitSplit ==
    (parse_pc = "parse_number_with_unit" /\ value = S_98_1_MlrdRub)
        => result = [num |-> Dec(981, -1), multiplier |-> Dec(1, 9)]

NullSentinels == {<<>>, <<45>>, EmDash, EnDash}

\* the text the separators are read in: the value without its surrounding
\* white space, its trailing currency and percent signs and its leading junk
Cleaned(text) == StripLeadingJunk(StripTrailingJunk(Strip(Replace(text, 160, <<32>>))))

HasComma(s) == \E i \in 1..Len(s) : s[i] = 44
LastComma(s) == CHOOSE i \in 1..Len(s) : s[i] = 44 /\ \A j \in (i + 1)..Len(s) : s[j] # 44
BeforeLastComma(s) == IF HasComma(s) THEN SubSeq(s, 1, LastComma(s) - 1) ELSE s
AfterLastComma(s) == IF HasComma(s) THEN SubSeq(s, LastComma(s) + 1, Len(s)) ELSE <<>>
OneToThreeDigits(t) == Len(t) \in 1..3 /\ \A i \in 1..Len(t) : t[i] \in 48..57
IsBlank(c) == c \in {32, 160}
IsBlankOrComma(c) == c \in {32, 160, 44}
WithoutBlanks(s) == SelectSeq(s, LAMBDA c : ~IsBlank(c))
WithoutBlanksAndCommas(s) == SelectSeq(s, LAMBDA c : ~IsBlankOrComma(c))

\* the number the comma rule gives for text s, frac being what is read as the
\* text after the last comma
ByCommaRule(s, frac) ==
    IF HasComma(s) /\ OneToThreeDigits(frac)
    THEN ToFloatGuarded(WithoutBlanks(BeforeLastComma(s)) \o <<46>> \o frac)
    ELSE ToFloatGuarded(WithoutBlanksAndCommas(s))

(* C5, with the white space after the comma accounted for:                   *)
(* parse_russian_number reads the last comma as the decimal separator        *)
(* exactly when the text after it, white space around it removed, is 1 to 3  *)
(* digits (the spaces of the integer part are then removed, '1 234,56' gives *)
(* 1234.56); otherwise every comma and space is removed ('1234,5678' gives   *)
(* 12345678, not 1234.5678); '', '-', the em dash and the en dash give None. *)
C5_CommaRuleTrimmed ==
    parse_pc = "parse_russian_number"
        => /\ value \in NullSentinels => result = None
           /\ value \notin NullSentinels
                  => result = ByCommaRule(Cleaned(value), Strip(AfterLastComma(Cleaned(value))))
           /\ value = S_1_234_56 => result = Dec(123456, -2)
           /\ value = S_1234_5678 => result = Dec(12345678, 0)

(* C5 as stated: the comma is the decimal separator exactly when the text    *)
(* after the last comma consists only of 1 to 3 digits.                      *)
C5_CommaRuleAsStated ==
    parse_pc = "parse_russian_number"
        => /\ value \in NullSentinels => result = None
           /\ value \notin NullSentinels
                  => result = ByCommaRule(Cleaned(value), AfterLastComma(Cleaned(value)))

C5_DecimalCommaParsed ==
    /\ parse_pc = "parse_russian_number"
    /\ value = S_1_234_56
    /\ OneToThreeDigits(AfterLastComma(Cleaned(value)))
    /\ result = Dec(123456, -2)

-----------------------------------------------------------------------------
(* Properties of the calculator (specification SpecCalc)                    *)

CannotCalculate(text) == RatioResult(Float(0, 1), text)

(* C8: calculate_all_ratios raises nothing, and a ratio whose denominator is *)
(* zero - total_assets for capital_adequacy, roa and nim, 0.7 x deposits for *)
(* instant_liquidity, 0.5 x total_liabilities for current_liquidity, equity  *)
(* for roe, loans_to_customers for problem_loans_ratio - is 0.0 with its     *)
(* 'Cannot calculate: ...' interpretation.                                   *)
C8_ZeroDenominatorResult ==
    calc_pc = "calculated"
        => /\ ratios # ZeroDivisionError
           /\ data.total_assets = 0
                  => /\ ratios.capital_adequacy
                            = CannotCalculate("Cannot calculate: Total assets is zero")
                     /\ ratios.roa = CannotCalculate("Cannot calculate: Total assets is zero")
                     /\ ratios.nim = CannotCalculate("Cannot calculate: Average assets is zero")
           /\ 7 * data.deposits_from_customers = 0
                  => ratios.instant_liquidity
                         = CannotCalculate("Cannot calculate: Demand deposits is zero")
           /\ 5 * data.total_liabilities = 0
                  => ratios.current_liquidity
                         = CannotCalculate("Cannot calculate: Short-term liabilities is zero")
           /\ data.equity = 0
                  => ratios.roe = CannotCalculate("Cannot calculate: Equity is zero")
           /\ data.loans_to_customers = 0
                  => ratios.problem_loans_ratio
                         = CannotCalculate("Cannot calculate: Loans to customers is zero")

C8_ZeroAssetsZeroEquity ==
    /\ calc_pc = "calculated"
    /\ data.equity = 0
    /\ data.total_assets = 0
    /\ ratios.capital_adequacy = CannotCalculate("Cannot calculate: Total assets is zero")
    /\ ratios.roe = CannotCalculate("Cannot calculate: Equity is zero")

\* the six ratios for which higher is better, with their tiers from the bottom
\* to the top
HigherIsBetter ==
    [capital_adequacy |-> <<"Deficient", "Adequate", "Excellent">>,
     instant_liquidity |-> <<"Concerning", "Adequate", "Strong">>,
     current_liquidity |-> <<"Concerning", "Adequate", "Strong">>,
     roe |-> <<"Low", "Good", "Excellent">>,
     roa |-> <<"Low", "Good", "Excellent">>,
     nim |-> <<"Low", "Good", "Excellent">>]

\* the denominator of each of them is zero: 0.7 x deposits and 0.5 x liabilities
\* are zero exactly when the deposits and the liabilities are
ZeroDenominator ==
    [capital_adequacy |-> data.total_assets = 0,
     instant_liquidity |-> data.deposits_from_customers = 0,
     current_liquidity |-> data.total_liabilities = 0,
     roe |-> data.equity = 0,
     roa |-> data.total_assets = 0,
     nim |-> data.total_assets = 0]

\* the quotient of two amounts and no other operation: the float nearest to it
ExactQuotients ==
    [capital_adequacy |-> <<data.equity, data.total_assets>>,
     roe |-> <<data.net_income, data.equity>>,
     roa |-> <<data.net_income, data.total_assets>>,
     nim |-> <<data.net_interest_income, data.total_assets>>]

(* C9: each of the six higher-is-better ratios with a nonzero denominator    *)
(* has the top tier when value >= ideal, the middle tier when minimum <=     *)
(* value < ideal, the bottom tier when value < minimum, the value being the  *)
(* float returned (for a quotient of two amounts, the float nearest to it).  *)
C9_TierByThresholds ==
    calc_pc = "calculated"
        => /\ \A name \in DOMAIN HigherIsBetter :
                  ~ZeroDenominator[name]
                      => /\ FloatGe(ratios[name].value, RATIOS_THRESHOLDS[name][2])
                                => ratios[name].interpretation = HigherIsBetter[name][3]
                         /\ (/\ FloatGe(ratios[name].value, RATIOS_THRESHOLDS[name][1])
                             /\ ~FloatGe(ratios[name].value, RATIOS_THRESHOLDS[name][2]))
                                => ratios[name].interpretation = HigherIsBetter[name][2]
                         /\ ~FloatGe(ratios[name].value, RATIOS_THRESHOLDS[name][1])
                                => ratios[name].interpretation = HigherIsBetter[name][1]
           /\ \A name \in DOMAIN ExactQuotients :
                  ExactQuotients[name][2] > 0
                      => ratios[name].value
                             = Float(ExactQuotients[name][1], ExactQuotients[name][2])

\* equity = 24 of total_assets = 200 is the ideal 0.12 itself: the top tier;
\* net_income = 2 is the minimum 0.01 of roa: the middle tier
C9_AtIdealIsTopTier ==
    /\ calc_pc = "calculated"
    /\ data.total_assets = 200
    /\ data.equity = 24
    /\ ratios.capital_adequacy.value = RATIOS_THRESHOLDS.capital_adequacy[2]
    /\ ratios.capital_adequacy.interpretation = "Excellent"
    /\ data.net_income = 2
    /\ ratios.roa.value = RATIOS_THRESHOLDS.roa[1]
    /\ ratios.roa.interpretation = "Good"
    /\ data.net_interest_income = 0
    /\ ratios.nim.interpretation = "Low"
    /\ data.cash_and_equivalents = 21
    /\ data.deposits_from_customers = 200
    /\ ratios.instant_liquidity.value = RATIOS_THRESHOLDS.instant_liquidity[1]
    /\ ratios.instant_liquidity.interpretation = "Adequate"

(* C10: for every record with loans_to_customers != 0, problem_loans_ratio   *)
(* has the fixed value 0.03 whatever the other fields, and its               *)
(* interpretation, by the inverted comparison (<= 0.02 healthy, <= 0.05      *)
(* concerning, above critical), is 'Concerning'.                             *)
C10_ValueExactlyThreePercent ==
    (calc_pc = "calculated" /\ data.loans_to_customers # 0)
        => /\ ratios.problem_loans_ratio.value = F_0_03
           /\ ratios.problem_loans_ratio.interpretation = "Concerning"

-----------------------------------------------------------------------------
(* Properties of normalize_score (specification SpecNormalize)              *)

(* C11: for a threshold pair min < ideal, normalize_score in the            *)
(* higher-is-better direction returns 0 for a value at or below min, 1 for  *)
(* a value at or above ideal, (value - min) / (ideal - min) for a value     *)
(* strictly between; a missing value (None, NaN) gives 0.                   *)
C11_NormalizeHigherIsBetter ==
    (/\ norm_pc = "returned"
     /\ ~norm_args.reverse
     /\ FloatCmp(norm_args.min_thr, norm_args.max_thr) < 0)
        => IF norm_args.val \in {None, FloatNaN} THEN norm_score = Float(0, 1)
           ELSE IF FloatCmp(norm_args.val, norm_args.min_thr) <= 0
           THEN norm_score = Float(0, 1)
           ELSE IF FloatCmp(norm_args.val, norm_args.max_thr) >= 0
           THEN norm_score = Float(1, 1)
           ELSE /\ norm_score =
                       Divide(Minus(norm_args.val, norm_args.min_thr),
                              Minus(norm_args.max_thr, norm_args.min_thr))
                /\ FloatCmp(norm_score, Float(0, 1)) > 0
                /\ FloatCmp(norm_score, Float(1, 1)) <= 0

\* 0.10 between 0.08 and 0.12 is scored one half
C11_HalfwayScoredOneHalf ==
    /\ norm_pc = "returned"
    /\ ~norm_args.reverse
    /\ norm_args.min_thr = Float(8, 100)
    /\ norm_args.max_thr = Float(12, 100)
    /\ norm_args.val = Float(10, 100)
    /\ FloatCmp(norm_score, Float(49, 100)) > 0
    /\ FloatCmp(norm_score, Float(51, 100)) < 0

-----------------------------------------------------------------------------
(* Properties of calculate_bsi (specification SpecCalc)                     *)

\* the value of problem_loans_ratio that calculate_bsi normalizes
ProblemLoansValue ==
    calculate_problem_loans_ratio(BankingRatiosCalculator(data)).value

\* the reversed normalization between an ideal maximum and a concerning maximum
ReversedScore(v, ideal_max, concerning_max) ==
    IF FloatCmp(v, ideal_max) <= 0 THEN Float(1, 1)
    ELSE IF FloatCmp(v, concerning_max) >= 0 THEN Float(0, 1)
    ELSE Divide(Minus(concerning_max, v), Minus(concerning_max, ideal_max))

(* C12: in the BSI computation the problem_loans_ratio value is normalized  *)
(* in the reversed direction: the score is 1 for a value at or below the    *)
(* ideal maximum 0.02, 0 for a value at or above the concerning maximum     *)
(* 0.05, and linearly interpolated for a value strictly between the two.    *)
C12_ProblemLoansScoreReversed ==
    (calc_pc = "bsi" /\ bsi # ZeroDivisionError)
        => normalized_scores.problem_loans_ratio =
               ReversedScore(ProblemLoansValue, Float(2, 100), Float(5, 100))

\* the sum, in the order of the weights, of weight times normalized score
SevenTermSum(scores) ==
    CHOOSE s7 \in
        {Plus(s6, Times(scores.problem_loans_ratio, Float(10, 100))) : s6 \in
        {Plus(s5, Times(scores.nim, Float(10, 100))) : s5 \in
        {Plus(s4, Times(scores.roa, Float(15, 100))) : s4 \in
        {Plus(s3, Times(scores.roe, Float(15, 100))) : s3 \in
        {Plus(s2, Times(scores.current_liquidity, Float(15, 100))) : s2 \in
        {Plus(s1, Times(scores.instant_liquidity, Float(15, 100))) : s1 \in
        {Times(scores.capital_adequacy, Float(20, 100))}}}}}}} : TRUE

\* the seven weights add up to 1.0
WeightsSumToOne == SevenTermSum([name \in RatioNames |-> Float(1, 1)]) = Float(1, 1)

InUnitInterval(x) == FloatCmp(x, Float(0, 1)) >= 0 /\ FloatCmp(x, Float(1, 1)) <= 0

(* C13: for every financial record, zero and negative fields included, the *)
(* BSI score is the sum over the seven ratios of weight times normalized    *)
(* score, with the weights 0.20, 0.15, 0.15, 0.15, 0.15, 0.10, 0.10 that    *)
(* add up to 1.0, and lies between 0 and 1.                                 *)
C13_BsiIsWeightedSum ==
    (calc_pc = "bsi" /\ bsi # ZeroDivisionError)
        => /\ WeightsSumToOne
           /\ \A name \in RatioNames : InUnitInterval(normalized_scores[name])
           /\ bsi.score = SevenTermSum(normalized_scores)
           /\ InUnitInterval(bsi.score)

\* a record with a loss and negative loans gets a score strictly inside (0, 1)
C13_LossMakingBankScored ==
    /\ calc_pc = "bsi"
    /\ bsi # ZeroDivisionError
    /\ data.net_income < 0
    /\ data.loans_to_customers < 0
    /\ data.total_assets > 0
    /\ FloatCmp(bsi.score, Float(1, 10)) > 0
    /\ FloatCmp(bsi.score, Float(1, 1)) < 0

\* every ratio of the dictionary is exactly at its ideal threshold
AllAtIdeal(all_ratios) ==
    \A name \in RatioNames : all_ratios[name].value = RATIOS_THRESHOLDS[name][2]

C15_BandByScore ==
    (calc_pc = "bsi" /\ bsi # ZeroDivisionError)
        => /\ bsi.interpretation = "Excellent stability"
                  <=> FloatCmp(bsi.score, Float(8, 10)) >= 0
           /\ bsi.interpretation = "Good stability"
                  <=> (/\ FloatCmp(bsi.score, Float(6, 10)) >= 0
                       /\ FloatCmp(bsi.score, Float(8, 10)) < 0)
           /\ bsi.interpretation = "Adequate stability"
                  <=> (/\ FloatCmp(bsi.score, Float(4, 10)) >= 0
                       /\ FloatCmp(bsi.score, Float(6, 10)) < 0)
           /\ bsi.interpretation = "Concerning stability"
                  <=> (/\ FloatCmp(bsi.score, Float(2, 10)) >= 0
                       /\ FloatCmp(bsi.score, Float(4, 10)) < 0)
           /\ bsi.interpretation = "Critical stability"
                  <=> FloatCmp(bsi.score, Float(2, 10)) < 0

\* a record whose score is exactly 0.8 is in the top band
C15_ExactlyEightTenthsExcellent ==
    /\ calc_pc = "bsi"
    /\ bsi # ZeroDivisionError
    /\ data # None
    /\ bsi.score = Float(8, 10)
    /\ bsi.interpretation = "Excellent stability"

-----------------------------------------------------------------------------
(* Properties of the account-code path (specification SpecAccounts)         *)

\* the amounts of the rows, in order, that are present and whose code starts
\* with the digit or is one of the codes listed
IsCounted(row, digit, listed) ==
    /\ row.amount # FloatNaN
    /\ (Head(row.account_code) = 48 + digit \/ row.account_code \in listed)

RECURSIVE SumOfCounted(_, _, _, _)
SumOfCounted(rows, n, digit, listed) ==
    IF n = 0 THEN Float(0, 1)
    ELSE IF IsCounted(rows[n], digit, listed)
    THEN CHOOSE s \in {Plus(before, rows[n].amount) :
                          before \in {SumOfCounted(rows, n - 1, digit, listed)}} : TRUE
    ELSE SumOfCounted(rows, n - 1, digit, listed)

AssetsCodes == {Code(<<1, 1, h, 0, 0>>) : h \in 0..9}
LiabilitiesCodes == {Code(<<2, 1, h, 0, 0>>) : h \in 0..9}

BalanceSheetGiven == account_pc = "returned" /\ "balance_sheet" \in DOMAIN account_tables

(* C16: for every balance-sheet table, total_assets is the sum of the       *)
(* amounts of the codes that start with "1" or are listed as assets codes,  *)
(* total_liabilities the sum of the amounts of the codes that start with    *)
(* "2" or are listed as liabilities codes, each row counted at most once in *)
(* each total, and equity = total_assets - total_liabilities in the record  *)
(* returned.                                                                *)
C16_TotalsByFirstDigit ==
    BalanceSheetGiven
        => /\ aggregated.total_assets =
                  SumOfCounted(account_tables["balance_sheet"],
                               Len(account_tables["balance_sheet"]), 1, AssetsCodes)
           /\ aggregated.total_liabilities =
                  SumOfCounted(account_tables["balance_sheet"],
                               Len(account_tables["balance_sheet"]), 2, LiabilitiesCodes)
           /\ aggregated.equity =
                  Minus(aggregated.total_assets, aggregated.total_liabilities)

\* a listed assets code that also starts with "1" is added once: 0.1 of 10101
\* and 0.2 of 11000 give 0.30000000000000004
C16_ListedAssetCountedOnce ==
    /\ BalanceSheetGiven
    /\ Len(account_tables["balance_sheet"]) = 2
    /\ account_tables["balance_sheet"][1].account_code = Code(<<1, 0, 1, 0, 1>>)
    /\ account_tables["balance_sheet"][2].account_code = Code(<<1, 1, 0, 0, 0>>)
    /\ aggregated.total_assets = Plus(Float(1, 10), Float(2, 10))
    /\ aggregated.total_liabilities = Float(0, 1)
    /\ aggregated.equity = aggregated.total_assets

\* the keys the record is said to contain always
NamedCanonicalKeys ==
    {"total_assets", "total_liabilities", "equity", "cash_and_equivalents",
     "loans_to_customers", "net_interest_income", "net_income"}

(* C17: the record aggregate_financial_data of the account-code path        *)
(* returns contains every canonical key, 0 where unresolved, for every      *)
(* input: also without a balance_sheet table, without an income_statement   *)
(* table, and without any table.                                            *)
C17_EveryCanonicalKeyPresent ==
    account_pc = "returned"
        => /\ NamedCanonicalKeys \subseteq DOMAIN aggregated
           /\ "balance_sheet" \notin DOMAIN account_tables
                  => aggregated["total_assets"] = Float(0, 1)
           /\ "income_statement" \notin DOMAIN account_tables
                  => aggregated["net_income"] = Float(0, 1)

-----------------------------------------------------------------------------
(* Properties of the absolute amounts (specification SpecAmounts)           *)

\* the cells of the row, by position in non_empty(row), that hold a number
NumberCells(row) == {j \in ValueCells(row) : Parsable(row, j)}

\* the number of cell j and its effective multiplier, inline times contextual
RawNumber(row, j) == ParsedCell[non_empty(row)[j + 1][2]].num
EffectiveMultiplier(row, units, j) ==
    DecMul(ParsedCell[non_empty(row)[j + 1][2]].multiplier,
           ContextMultiplier(row, units, non_empty(row)[j + 1][1]))

\* the five indicators of the claim
FiveIndicators ==
    {"total_assets", "loans_to_customers", "deposits_from_customers", "net_income",
     "operating_income"}

\* the factor the claim gives: 1e9 for one of the five indicators when the
\* scaled value is below 1e12, the effective multiplier 1 and the raw number
\* above 1; no factor otherwise
BillionsFactor(param_name, raw, multiplier) ==
    IF /\ param_name \in FiveIndicators
       /\ DecLt(DecMul(raw, multiplier), Dec(1, 12))
       /\ multiplier = One
       /\ DecGt(raw, One)
    THEN Dec(1, 9)
    ELSE One

ExpectedAmount(param_name, raw, multiplier) ==
    DecMul(DecMul(raw, multiplier), BillionsFactor(param_name, raw, multiplier))

\* the step appends a row of an absolute indicator with a number in it
AmountRowProcessed(row) ==
    /\ RowProcessed(row)
    /\ MatchedRow(row)
    /\ ParamOfRow(row) \notin PercentageIndicators
    /\ NumberCells(row) # {}

ProfitThenAssets ==
    [columns |-> 2,
     rows |-> <<(<<Str(OperatsionnayaPribyl), Str(V_120)>>), (<<Str(ItogoAktivov), Str(V_120)>>)>>]

-----------------------------------------------------------------------------
(* Properties of one table aggregated whole (specification SpecTable)       *)

(* C18: the record returned for the (key, value) rows of an aggregated      *)
(* record has, under every key, the value the aggregated record has.         *)
C18_ReaggregationKeepsValues ==
    "reaggregate" \in table_calls
        => \A k \in DOMAIN table_result : reaggregated[k] = table_result[k]

\* the indicators both modules declare under one name with the same synonyms
SharedIndicators ==
    {financial_patterns[i].name : i \in
        {i \in 1..Len(financial_patterns) :
            \E j \in 1..Len(processor_financial_patterns) :
                processor_financial_patterns[j] = financial_patterns[i]}}

\* the value of a key of the processor's dictionary, 0 when the key is absent
ExtractedOrZero(k) == IF k \in DOMAIN extracted THEN extracted[k] ELSE Zero

(* C19: for every indicator both modules declare under one name with the    *)
(* same synonyms, aggregate_financial_data([table]) holds the value         *)
(* extract_financial_data(table) stored, 0 when it stored none.             *)
C19_AggregatorFollowsProcessor ==
    {"aggregate", "extract"} \subseteq table_calls
        => \A k \in SharedIndicators : table_result[k] = ExtractedOrZero(k)

-----------------------------------------------------------------------------
(* Properties of the scan order (specification SpecAmounts)                 *)

\* what cell j of non_empty(row) resolves to: the value to store, None when the
\* cell does not parse or is discarded
ResolvedAt(row, units, j) ==
    ResolveCell(ParamOfRow(row), row, units, non_empty(row)[j + 1][1], non_empty(row)[j + 1][2])

\* the candidate cells of the row that resolve to a value
ResolvedCells(row, units) == {j \in ValueCells(row) : ResolvedAt(row, units, j) # None}

(* C21: a row that matches no indicator leaves the record as it was; a       *)
(* matched row changes at most its indicator, which afterwards holds the     *)
(* value of the row's last cell, left to right from the numeric start, that  *)
(* resolved to one, and keeps the value of the earlier rows when no cell of  *)
(* the row resolved.                                                         *)
C21_LastResolvedWins ==
    [][\A row \in AmountRowMenu :
          RowProcessed(row)
              => IF ~MatchedRow(row) THEN financial_data' = financial_data
                 ELSE /\ \A k \in DOMAIN financial_data :
                             k # ParamOfRow(row) => financial_data'[k] = financial_data[k]
                      /\ financial_data'[ParamOfRow(row)] =
                             IF ResolvedCells(row, current_units') = {}
                             THEN financial_data[ParamOfRow(row)]
                             ELSE ResolvedAt(row, current_units',
                                             SetMax(ResolvedCells(row, current_units')))]_vars

\* ['Итого активов', '15,5', 'млн руб'] then ['Итого активов', '120', '0,5']: the
\* second row has two values, the later one in the column of the unit
TwoValuesAfterUnit ==
    [columns |-> 3,
     rows |-> <<(<<Str(ItogoAktivov), Str(V_15_5), Str(MlnRub)>>),
                (<<Str(ItogoAktivov), Str(V_120), Str(V_0_5)>>)>>]

C21_SecondCellOfSecondRowKept ==
    /\ pc = "done"
    /\ tables = <<TwoValuesAfterUnit>>
    /\ Cardinality(ResolvedCells(TwoValuesAfterUnit.rows[2], current_units)) = 2
    /\ financial_data.total_assets = Dec(5, 5)

-----------------------------------------------------------------------------
(* The units of the columns (specification SpecUnits)                       *)

\* the step appends an empty table to the tables
TableBegun == pc = "tables" /\ pc' = "rows"

\* the columns of the scanned prefix of the row in which a unit text is found
UnitColumns(row) ==
    {c \in 0..(Len(row) - 1) : c < ScanColumns /\ UpperCellUnit(row[c + 1]) # None}

\* the units of the columns after a row: unchanged by a skipped row; otherwise
\* the unit found in the column, or the unit the column had
UnitsAfter(units, row) ==
    IF HeaderRow[row] \/ AllNaN(row) THEN units
    ELSE [c \in DOMAIN units \cup UnitColumns(row) |->
             IF c \in UnitColumns(row) THEN UpperCellUnit(row[c + 1]) ELSE units[c]]

\* the multiplier of the context of column col_idx: the unit of the column when
\* it has one, the cell/next/previous lookup otherwise
ColumnFirst(row, units, col_idx) ==
    IF col_idx \in DOMAIN units THEN units[col_idx]
    ELSE detect_units_in_context(row, col_idx)

UnitAboveValue ==
    [columns |-> 3,
     rows |-> <<(<<NaN, Str(MlnRub), NaN>>),
                (<<Str(ItogoAktivov), Str(V_15_5), Str(TysRub)>>)>>]

WideRowsUnitIgnored ==
    /\ pc = "done"
    /\ Len(tables) = 1 /\ tables[1].columns = 11 /\ Len(tables[1].rows) = 2
    /\ tables[1].rows[1][11] = Str(MlnRub)
    /\ tables[1].rows[2][11] = Str(V_15_5)
    /\ current_units = NoUnits
    /\ financial_data.total_assets = Dec(155, 8)

-----------------------------------------------------------------------------
(* Units applied to a value (specification SpecAmounts)                     *)

\* the multipliers a unit text stands for
UnitMultipliers == {One, Dec(1, 3), Dec(1, 6), Dec(1, 9)}

(* C23: for every number cell of a matched row the effective multiplier,     *)
(* inline times contextual, is one of 1, 1e3, 1e6, 1e9, and a row whose last *)
(* number cell carries its own unit text stores the number times that unit.  *)
C23_UnitAppliedOnce ==
    [][\A row \in AmountRowMenu :
          (RowProcessed(row) /\ MatchedRow(row) /\ NumberCells(row) # {})
              => /\ \A j \in NumberCells(row) :
                        EffectiveMultiplier(row, current_units', j) \in UnitMultipliers
                 /\ ParsedCell[non_empty(row)[SetMax(NumberCells(row)) + 1][2]].multiplier # One
                        => financial_data'[ParamOfRow(row)] =
                               DecMul(RawNumber(row, SetMax(NumberCells(row))),
                                      ParsedCell[non_empty(row)[SetMax(NumberCells(row)) + 1][2]].multiplier)]_vars

\* the text is purely numeric or shorter than 3 characters
StartsNumbers(cell_str) == NumericLooking(cell_str) \/ Len(cell_str) < ShortCell

\* the positions in non_empty(row) of the cells joined into the label
JoinedCells(row) == 0..(Len(IndicatorLoop(non_empty(row), 0, <<>>).indicator_parts) - 1)

(* C27: in a matched row the cell the stored value is parsed from, the last  *)
(* cell that resolves to a value, is not a cell whose text was joined into   *)
(* the label, and is at or after a numeric-looking cell of the first three.   *)
C27_ValueNotFromLabelCell ==
    [][\A row \in AmountRowMenu :
          (RowProcessed(row) /\ MatchedRow(row) /\ ResolvedCells(row, current_units') # {})
              => /\ SetMax(ResolvedCells(row, current_units')) \notin JoinedCells(row)
                 /\ \E i \in 0..SetMax(ResolvedCells(row, current_units')) :
                        /\ i < LabelCells
                        /\ StartsNumbers(Strip(CellStr(non_empty(row)[i + 1][2])))]_vars

-----------------------------------------------------------------------------
(* The pipeline of the platform (specifications SpecPlatform, SpecPipeline) *)

\* every ratio of the dictionary has the normalized score 1: it is at its ideal
\* threshold or on the better side of it
AllNormalizedOne(all_ratios) ==
    \A name \in RatioNames : NormalizedScore(name, all_ratios[name].value) = FloatOne

(* C24: after bsi.calculate_bsi(financial_data, ratios) on the dictionary    *)
(* calculate_all_ratios returned, each of its seven keys is a key the        *)
(* composer weighs and has a normalized score, and a dictionary whose seven  *)
(* ratios are all at or beyond their ideal threshold gets the score 1.0.     *)
C24_PlatformWeighsEveryRatio ==
    calc_pc = "platform_bsi"
        => /\ \A name \in DOMAIN ratios : name \in DOMAIN normalized_scores
           /\ AllNormalizedOne(ratios) => bsi.score = FloatOne

\* the keys the aggregator never stores a value under
UnwrittenKeys == {"total_liabilities", "equity", "cash_and_equivalents"}

(* C25: no indicator of the patterns is named total_liabilities, equity or   *)
(* cash_and_equivalents; the record aggregate_financial_data returns has 0   *)
(* under the three; the ratios calculated from that record have the          *)
(* zero-denominator result for roe and current_liquidity and the value 0 for *)
(* capital_adequacy and instant_liquidity.                                   *)
C25_UnwrittenKeysStayZero ==
    /\ \A i \in 1..Len(financial_patterns) : financial_patterns[i].name \notin UnwrittenKeys
    /\ "aggregate" \in table_calls => \A k \in UnwrittenKeys : table_result[k] = Zero
    /\ calc_pc \in {"calculated", "platform_bsi"}
           => /\ ratios.roe = CannotCalculate("Cannot calculate: Equity is zero")
              /\ ratios.current_liquidity =
                     CannotCalculate("Cannot calculate: Short-term liabilities is zero")
              /\ IsZero(ratios.capital_adequacy.value)
              /\ IsZero(ratios.instant_liquidity.value)

\* ['Итого активов', '120'] then ['Депозиты', '120']: both denominators are not 0
C25_ZeroNumerators ==
    /\ calc_pc = "calculated"
    /\ table_rows = <<(<<Str(ItogoAktivov), Str(V_120)>>), (<<Str(Depozity), Str(V_120)>>)>>
    /\ table_result.total_assets = Dec(120, 9)
    /\ table_result.deposits_from_customers = Dec(120, 9)
    /\ ratios.capital_adequacy = RatioResult(FloatZero, "Deficient")
    /\ ratios.instant_liquidity = RatioResult(FloatZero, "Concerning")

-----------------------------------------------------------------------------
(* Ratios that could not be calculated, in the calculator's index           *)
(* (specification SpecCalc)                                                 *)

\* the interpretation of the zero-denominator result of each ratio
CannotCalculateText ==
    [capital_adequacy |-> "Cannot calculate: Total assets is zero",
     instant_liquidity |-> "Cannot calculate: Demand deposits is zero",
     current_liquidity |-> "Cannot calculate: Short-term liabilities is zero",
     roe |-> "Cannot calculate: Equity is zero",
     roa |-> "Cannot calculate: Total assets is zero",
     nim |-> "Cannot calculate: Average assets is zero",
     problem_loans_ratio |-> "Cannot calculate: Loans to customers is zero"]

\* the ratios of the record that could not be calculated
NotCalculated ==
    {name \in RatioNames :
        calculate_all_ratios(BankingRatiosCalculator(data))[name] =
            CannotCalculate(CannotCalculateText[name])}

(* C26: after calculate_bsi every ratio that could not be calculated has the *)
(* normalized score 0, so that it adds nothing to the index, and the record  *)
(* whose fields are all 0 has the index 0.                                   *)
C26_NotCalculatedScoresZero ==
    calc_pc = "bsi"
        => /\ \A name \in NotCalculated : normalized_scores[name] = FloatZero
           /\ data = ZeroRecord => bsi.score = FloatZero

-----------------------------------------------------------------------------
(* Synonyms (specification SpecSynonyms)                                    *)

(* C28: a label equal to a plain synonym of an indicator is classified as    *)
(* that indicator.                                                           *)
C28_NoSynonymShadowed ==
    parse_pc = "matched" => result = value.indicator


-----------------------------------------------------------------------------
(* The upload loop (specifications SpecUpload, SpecUploadFair)              *)

\* the numbers of the files analysed with success: tables, and no step raised
Analysed ==
    {n \in 1..Len(uploaded_files) :
        uploaded_files[n].tables /\ uploaded_files[n].raises = "none"}

(* C29: when the loop has finished, the session store holds one entry for    *)
(* every file that was analysed with success, and no other entry.            *)
C29_OneEntryPerAnalysedFile ==
    app_pc = "finished"
        => /\ Cardinality(DOMAIN session_data) = Cardinality(Analysed)
           /\ \A n \in Analysed : \E k \in DOMAIN session_data : session_data[k].file = n

(* C30: the temporary file of every file is deleted in the end, whatever the *)
(* outcome of the file, and the loop gets to the end of the batch: every     *)
(* file has had its iteration and no temporary file is left.                 *)
C30_TempFilesDeletedLoopGoesOn ==
    /\ \A n \in 1..MaxFiles : (n \in temp_files) ~> (n \notin temp_files)
    /\ <>(app_pc = "finished" /\ file_idx = Len(uploaded_files) /\ temp_files = {})

\* a file whose aggregation raises, then a file that is analysed
C30_SuccessAfterFailure ==
    /\ app_pc = "finished"
    /\ uploaded_files = <<[tables |-> TRUE, bank_name |-> "Bank", raises |-> "aggregate"],
                          [tables |-> TRUE, bank_name |-> "Bank", raises |-> "none"]>>
    /\ shown_errors = {1}
    /\ temp_files = {}
    /\ session_data = [k \in {"Bank"} |-> [file |-> 2]]
====
